---- MODULE Spec2Model ----
(***************************************************************************)
(* A model of pyatoa's Inspector (src/pyatoa/core/seisflows/inspector.py): *)
(* the in-memory index of source/receiver, misfit and window records, its  *)
(* ingestion from ASDF datasets, exclusion of events, persistence to JSON  *)
(* and the reductions computed from it; and of the Pyaflowa plugin object, *)
(* match_npts and the Config, each under a specification of its own.       *)
(*                                                                         *)
(* Conventions                                                             *)
(*  - A Python str whose characters the code inspects ("." in key, "_" in  *)
(*    name, tag.endswith(".json"), cha_id.split(".")) is a tuple of one    *)
(*    character strings.  Model and step names are never inspected and are *)
(*    plain strings.                                                       *)
(*  - The three top-level dictionaries keep Python's insertion order: they *)
(*    are sequences of items [k |-> key, v |-> value].  A nested           *)
(*    dictionary is a function from keys to values, which is what ==       *)
(*    compares; an item of misfits or of windows also holds, as ord, the   *)
(*    keys of its nested dictionaries in insertion order, which is what    *)
(*    the loops walk: a sequence of [k |-> key, v |-> the keys below it].  *)
(*  - None is the empty tuple and a value x that may be None is <<x>>.     *)
(*  - Floats are exact rationals <<numerator, denominator>> in lowest      *)
(*    terms; a division by 0 raises ZeroDivisionError as for Python        *)
(*    numbers.                                                             *)
(*  - An operation returns a record holding the object after the call      *)
(*    (o), the value returned (ret) and the name of the exception that     *)
(*    left the call, "" when it returned normally (exc).                   *)
(***************************************************************************)
EXTENDS Integers, Sequences, FiniteSets, TLC

VARIABLES
    self,   \* the Inspector object: a record of its attributes
    fs,     \* the files written by save: a sequence of [name, text]
    last,   \* the last call: its name, arguments, outcome and the object before it
    flow,   \* the Pyaflowa object, its directories and the outcome of its last call
    streams,    \* a call of match_npts: its arguments and the streams returned
    asdf    \* a Config, the dataset it is written to and the Config read back

vars == <<self, fs, last, flow, streams, asdf>>

\* The variables of the other components, which the Inspector leaves alone
others == <<flow, streams, asdf>>

----------------------------------------------------------------------------
(* Strings as tuples of characters *)

\* "c in s" for a one character c
Contains(s, c) == \E i \in DOMAIN s : s[i] = c

\* s.endswith(suf)
EndsWith(s, suf) ==
    /\ Len(s) >= Len(suf)
    /\ SubSeq(s, Len(s) - Len(suf) + 1, Len(s)) = suf

\* s.split(c): the parts of s between the occurrences of c
RECURSIVE SplitFrom(_, _, _, _)
SplitFrom(s, c, i, cur) ==
    IF i > Len(s) THEN <<cur>>
    ELSE IF s[i] = c THEN <<cur>> \o SplitFrom(s, c, i + 1, <<>>)
    ELSE SplitFrom(s, c, i + 1, Append(cur, s[i]))

Split(s, c) == SplitFrom(s, c, 1, <<>>)

\* The letters that str.upper() and str.lower() change, for ASCII
LowerCase ==
    <<"a", "b", "c", "d", "e", "f", "g", "h", "i", "j", "k", "l", "m", "n", "o",
      "p", "q", "r", "s", "t", "u", "v", "w", "x", "y", "z">>

UpperCase ==
    <<"A", "B", "C", "D", "E", "F", "G", "H", "I", "J", "K", "L", "M", "N", "O",
      "P", "Q", "R", "S", "T", "U", "V", "W", "X", "Y", "Z">>

\* to[i] for the character from[i], any other character as it is
Mapped(c, from, to) ==
    IF \E i \in DOMAIN from : from[i] = c
    THEN to[CHOOSE i \in DOMAIN from : from[i] = c] ELSE c

\* s.upper()
Upper(s) == [i \in DOMAIN s |-> Mapped(s[i], LowerCase, UpperCase)]

\* s.lower()
Lower(s) == [i \in DOMAIN s |-> Mapped(s[i], UpperCase, LowerCase)]

\* The characters of keys and names, in code point order
Alphabet ==
    <<".", "/", "0", "1", "2", "3", "4", "5", "6", "7", "8", "9",
      "A", "B", "C", "D", "E", "F", "G", "H", "I", "J", "K", "L", "M",
      "N", "O", "P", "Q", "R", "S", "T", "U", "V", "W", "X", "Y", "Z", "_",
      "a", "b", "c", "d", "e", "f", "g", "h", "i", "j", "k", "l", "m",
      "n", "o", "p", "q", "r", "s", "t", "u", "v", "w", "x", "y", "z">>

Ord(c) == CHOOSE i \in DOMAIN Alphabet : Alphabet[i] = c

\* s < t for two str, as Python compares them
RECURSIVE StrLess(_, _)
StrLess(s, t) ==
    IF t = <<>> THEN FALSE
    ELSE IF s = <<>> THEN TRUE
    ELSE IF Head(s) = Head(t) THEN StrLess(Tail(s), Tail(t))
    ELSE Ord(Head(s)) < Ord(Head(t))

\* The concatenation of a sequence of lists
RECURSIVE Concat(_)
Concat(ss) == IF ss = <<>> THEN <<>> ELSE Head(ss) \o Concat(Tail(ss))

\* The elements of a list
Elems(l) == {l[i] : i \in DOMAIN l}

----------------------------------------------------------------------------
(* Python dictionaries *)

\* A nested dictionary: the empty one, and d[k] = v
EmptyMap == [x \in {} |-> 0]

MapPut(d, k, v) == [x \in DOMAIN d \cup {k} |-> IF x = k THEN v ELSE d[x]]

\* A top-level dictionary in insertion order
Keys(d) == {d[i].k : i \in DOMAIN d}

Has(d, k) == k \in Keys(d)

Idx(d, k) == CHOOSE i \in DOMAIN d : d[i].k = k

Get(d, k) == d[Idx(d, k)].v

\* d[it.k] = it.v: an existing key keeps its place, a new key goes last
PutItem(d, it) ==
    IF Has(d, it.k) THEN [d EXCEPT ![Idx(d, it.k)] = it] ELSE Append(d, it)

\* d[k] = v
Put(d, k, v) == PutItem(d, [k |-> k, v |-> v])

\* del d[k], for a key of d
Del(d, k) == SelectSeq(d, LAMBDA it : it.k # k)

\* The dictionary as a function of its keys, without its order
AsMap(d) == [k \in Keys(d) |-> Get(d, k)]

\* The keys of a dictionary, in its order
KeyList(d) == [i \in DOMAIN d |-> d[i].k]

\* A nested dictionary under construction: its values and the order of its
\* keys
EmptyDict == [v |-> EmptyMap, ord |-> <<>>]

\* d[k] = sub for a nested dictionary sub
DictPut(d, k, sub) == [v |-> MapPut(d.v, k, sub.v), ord |-> Put(d.ord, k, sub.ord)]

----------------------------------------------------------------------------
(* Numbers *)

Abs(x) == IF x < 0 THEN -x ELSE x

RECURSIVE GCD(_, _)
GCD(a, b) == IF b = 0 THEN a ELSE GCD(b, a % b)

\* The rational n/d, d > 0, in lowest terms
Rat(n, d) == LET g == GCD(Abs(n), d) IN <<n \div g, d \div g>>

RAdd(a, b) == Rat(a[1] * b[2] + b[1] * a[2], a[2] * b[2])

\* sum(vals) for a list of int
RECURSIVE SumInts(_)
SumInts(vals) == IF vals = <<>> THEN 0 ELSE Head(vals) + SumInts(Tail(vals))

\* a / k for an integer k # 0
RDivInt(a, k) == IF k > 0 THEN Rat(a[1], a[2] * k) ELSE Rat(-a[1], a[2] * (-k))

----------------------------------------------------------------------------
(* The Inspector object *)

None == <<>>

Some(x) == <<x>>

\* The attributes set by __init__ before anything is read (lines 58-72)
NewInspector(utm) ==
    [srcrcv |-> <<>>, misfits |-> <<>>, windows |-> <<>>, utm |-> utm,
     stations |-> None, events |-> None, str |-> None, models |-> None,
     steps |-> None, iterations |-> 0]

\* The attributes in the order __init__ creates them, as vars(self).keys()
\* lists them: the name, the field that holds it here, and whether its value
\* is a dictionary
Attr(name, field, dict) == [name |-> name, field |-> field, dict |-> dict]

AttrNames ==
    << Attr(<<"s", "r", "c", "r", "c", "v">>, "srcrcv", TRUE),
       Attr(<<"m", "i", "s", "f", "i", "t", "s">>, "misfits", TRUE),
       Attr(<<"w", "i", "n", "d", "o", "w", "s">>, "windows", TRUE),
       Attr(<<"_", "u", "t", "m">>, "utm", FALSE),
       Attr(<<"_", "s", "t", "a", "t", "i", "o", "n", "s">>, "stations", FALSE),
       Attr(<<"_", "e", "v", "e", "n", "t", "s">>, "events", FALSE),
       Attr(<<"_", "s", "t", "r">>, "str", FALSE),
       Attr(<<"_", "m", "o", "d", "e", "l", "s">>, "models", FALSE),
       Attr(<<"_", "s", "t", "e", "p", "s">>, "steps", FALSE),
       Attr(<<"_", "i", "t", "e", "r", "a", "t", "i", "o", "n", "s">>,
            "iterations", FALSE) >>

----------------------------------------------------------------------------
(* Collaborators whose code is outside the repository's source files *)

\* pyatoa.utils.form.event_id(ds=ds): the key of the dataset's event
event_id(ds) == ds.eid

\* pyatoa.utils.srcrcv.lonlat_utm: the projected coordinates, kept symbolic
lonlat_utm(lon, lat, zone) ==
    [x |-> <<"utm_x", lon, lat, zone>>, y |-> <<"utm_y", lon, lat, zone>>]

\* obspy's gps2dist_azimuth: distance and back-azimuth, kept symbolic
gps2dist_azimuth(lat1, lon1, lat2, lon2) ==
    [gcd |-> <<"gcd", lat1, lon1, lat2, lon2>>,
     baz |-> <<"baz", lat1, lon1, lat2, lon2>>]

\* pyatoa.utils.asdf.extractions.count_misfit_windows(ds, model, step,
\* count_by_stations=True): the window count of every station, as the
\* dataset reports it
count_misfit_windows(st) == st.num_win

\* str(UTCDateTime) and UTCDateTime(str)
TimeStr(t) == <<"iso", t>>

UTCDateTime(s) == s[2]

----------------------------------------------------------------------------
(* Extractors *)

Ok(v) == [v |-> v, exc |-> ""]

Raise(v, e) == [v |-> v, exc |-> e]

\* for step in group[model].list(): acc[step] = {} and the body StepOp; an
\* exception leaves the entries written so far
RECURSIVE OverSteps(_, _, _, _)
OverSteps(StepOp(_), acc, steps, j) ==
    IF j > Len(steps) THEN Ok(acc)
    ELSE LET r == StepOp(steps[j])
             acc2 == DictPut(acc, steps[j].name, r.v)
         IN  IF r.exc # "" THEN Raise(acc2, r.exc)
             ELSE OverSteps(StepOp, acc2, steps, j + 1)

\* for model in group.list(): acc[model] = {} and the loop over its steps
RECURSIVE OverModels(_, _, _, _)
OverModels(StepOp(_), acc, models, i) ==
    IF i > Len(models) THEN Ok(acc)
    ELSE LET r == OverSteps(StepOp, EmptyDict, models[i].steps, 1)
             acc2 == DictPut(acc, models[i].name, r.v)
         IN  IF r.exc # "" THEN Raise(acc2, r.exc)
             ELSE OverModels(StepOp, acc2, models, i + 1)

WindowParams ==
    {"channel_id", "dlnA", "window_weight", "max_cc_value",
     "relative_endtime", "relative_starttime", "cc_shift_in_seconds"}

NoWindows ==
    [cc_shift_sec |-> <<>>, dlna |-> <<>>, weight |-> <<>>, max_cc |-> <<>>,
     length_s |-> <<>>, rel_start |-> <<>>, rel_end |-> <<>>]

\* if sta_id not in win: win[sta_id] = {} and if cha not in win[sta_id]:
\* win[sta_id][cha] = {...}: lines 476-483
WithChannel(win, sta_id, cha) ==
    LET v1 == IF sta_id \in DOMAIN win.v THEN win.v
              ELSE MapPut(win.v, sta_id, EmptyMap)
        o1 == IF sta_id \in DOMAIN win.v THEN win.ord ELSE Put(win.ord, sta_id, <<>>)
    IN  IF cha \in DOMAIN v1[sta_id] THEN [v |-> v1, ord |-> o1]
        ELSE [v |-> [v1 EXCEPT ![sta_id] = MapPut(@, cha, NoWindows)],
              ord |-> Put(o1, sta_id, Put(Get(o1, sta_id), cha, <<>>))]

\* A faulty variant of AddWindow that does not append the weight; C21
\* rejects it
AddWindowNoWeight(win, p) ==
    IF "channel_id" \notin DOMAIN p THEN Raise(win, "KeyError")
    ELSE LET parts == Split(p.channel_id, ".") IN
    IF Len(parts) # 4 THEN Raise(win, "ValueError")
    ELSE IF ~(WindowParams \subseteq DOMAIN p) THEN Raise(win, "KeyError")
    ELSE LET sta_id == parts[1] \o <<".">> \o parts[2]
             cha == parts[4]
         IN  Ok([WithChannel(win, sta_id, cha) EXCEPT !.v[sta_id][cha] =
                    [cc_shift_sec |-> Append(@.cc_shift_sec, p.cc_shift_in_seconds),
                     dlna |-> Append(@.dlna, p.dlnA),
                     weight |-> @.weight,
                     max_cc |-> Append(@.max_cc, p.max_cc_value),
                     length_s |-> Append(@.length_s,
                                         p.relative_endtime - p.relative_starttime),
                     rel_start |-> Append(@.rel_start, p.relative_starttime),
                     rel_end |-> Append(@.rel_end, p.relative_endtime)]])

\* One window of a (model, step): lines 463-495.  win is
\* self.windows[eid][model][step] with the order of its keys, p is
\* window.parameters
AddWindow(win, p) ==
    IF "channel_id" \notin DOMAIN p THEN Raise(win, "KeyError")
    ELSE LET parts == Split(p.channel_id, ".") IN
    IF Len(parts) # 4 THEN Raise(win, "ValueError")
    ELSE IF ~(WindowParams \subseteq DOMAIN p) THEN Raise(win, "KeyError")
    ELSE LET sta_id == parts[1] \o <<".">> \o parts[2]
             cha == parts[4]
             length_s == p.relative_endtime - p.relative_starttime
         IN  Ok([WithChannel(win, sta_id, cha) EXCEPT !.v[sta_id][cha] =
                    [cc_shift_sec |-> Append(@.cc_shift_sec, p.cc_shift_in_seconds),
                     dlna |-> Append(@.dlna, p.dlnA),
                     weight |-> Append(@.weight, p.window_weight),
                     max_cc |-> Append(@.max_cc, p.max_cc_value),
                     length_s |-> Append(@.length_s, length_s),
                     rel_start |-> Append(@.rel_start, p.relative_starttime),
                     rel_end |-> Append(@.rel_end, p.relative_endtime)]])

\* for window in ds.auxiliary_data.MisfitWindows[model][step]: lines 461-495
RECURSIVE AddWindows(_, _, _)
AddWindows(win, items, i) ==
    IF i > Len(items) THEN Ok(win)
    ELSE LET r == AddWindow(win, items[i])
         IN  IF r.exc # "" THEN r ELSE AddWindows(r.v, items, i + 1)

WindowsOfStep(st) == AddWindows(EmptyDict, st.items, 1)

\* Inspector.get_windows: lines 445-495
get_windows(o, ds) ==
    LET eid == event_id(ds)
        r == OverModels(WindowsOfStep, EmptyDict, ds.MisfitWindows, 1)
    IN  [o |-> [o EXCEPT !.windows = PutItem(@, [k |-> eid, v |-> r.v.v,
                                                  ord |-> r.v.ord])],
         exc |-> r.exc]

\* One adjoint source of a (model, step): lines 427-437.  acc.v is
\* self.misfits[eid][model][step] and acc.ord the order of its keys
AddMisfit(acc, p, num_win) ==
    IF ~({"station_id", "misfit_value"} \subseteq DOMAIN p)
    THEN Raise(acc, "KeyError")
    ELSE LET sta_id == p.station_id
             misfit == Rat(p.misfit_value, 1)
         IN  IF sta_id \notin DOMAIN acc.v /\ sta_id \notin DOMAIN num_win
             THEN Raise(acc, "KeyError")
             ELSE LET v1 == IF sta_id \in DOMAIN acc.v THEN acc.v
                            ELSE MapPut(acc.v, sta_id,
                                        [msft |-> Rat(0, 1), nwin |-> num_win[sta_id]])
                      ord1 == IF sta_id \in DOMAIN acc.v THEN acc.ord
                              ELSE Put(acc.ord, sta_id, <<>>)
                  IN  Ok([v |-> [v1 EXCEPT ![sta_id].msft = RAdd(@, misfit)],
                          ord |-> ord1])

\* for station in ds.auxiliary_data.AdjointSources[model][step]: lines 425-437
RECURSIVE AddMisfits(_, _, _, _)
AddMisfits(acc, items, num_win, i) ==
    IF i > Len(items) THEN Ok(acc)
    ELSE LET r == AddMisfit(acc, items[i], num_win)
         IN  IF r.exc # "" THEN r ELSE AddMisfits(r.v, items, num_win, i + 1)

\* A faulty variant of ScaleOne that divides by nwin; C7 rejects it
ScaleOneByWindows(rec) ==
    IF rec.nwin = 0 THEN Raise(rec, "ZeroDivisionError")
    ELSE Ok([rec EXCEPT !.msft = RDivInt(@, rec.nwin)])

\* msft /= 2 * nwin for one station: lines 442-443
ScaleOne(rec) ==
    IF 2 * rec.nwin = 0 THEN Raise(rec, "ZeroDivisionError")
    ELSE Ok([rec EXCEPT !.msft = RDivInt(@, 2 * rec.nwin)])

\* for sta_id in self.misfits[eid][model][step].keys(): lines 441-443
RECURSIVE ScaleMisfits(_, _, _)
ScaleMisfits(m, ord, i) ==
    IF i > Len(ord) THEN Ok(m)
    ELSE LET r == ScaleOne(m[ord[i]])
         IN  IF r.exc # "" THEN Raise(m, r.exc)
             ELSE ScaleMisfits([m EXCEPT ![ord[i]] = r.v], ord, i + 1)

\* The body of the loop over steps: lines 420-443
MisfitsOfStep(st) ==
    LET num_win == count_misfit_windows(st)
        r == AddMisfits(EmptyDict, st.items, num_win, 1)
        scaled == ScaleMisfits(r.v.v, KeyList(r.v.ord), 1)
    IN  IF r.exc # "" THEN r
        ELSE [v |-> [v |-> scaled.v, ord |-> r.v.ord], exc |-> scaled.exc]

\* Inspector.get_misfits: lines 406-443
get_misfits(o, ds) ==
    LET eid == event_id(ds)
        r == OverModels(MisfitsOfStep, EmptyDict, ds.AdjointSources, 1)
    IN  [o |-> [o EXCEPT !.misfits = PutItem(@, [k |-> eid, v |-> r.v.v,
                                                  ord |-> r.v.ord])],
         exc |-> r.exc]

\* The record of an event: lines 374-381
EventRecord(ds, utm) ==
    LET org == ds.origin
        ev == lonlat_utm(org.longitude, org.latitude, utm)
    IN  [lat |-> org.latitude, lon |-> org.longitude, depth_m |-> org.depth,
         time |-> TimeStr(org.time), mag |-> ds.mag,
         utm_x |-> ev.x, utm_y |-> ev.y, rcv |-> EmptyMap]

\* The record of a station: lines 387-396
StationRecord(c, utm) ==
    LET st == lonlat_utm(c.longitude, c.latitude, utm)
    IN  [lat |-> c.latitude, lon |-> c.longitude, elv_m |-> c.elevation_in_m,
         utm_x |-> st.x, utm_y |-> st.y]

\* A faulty variant of AddStations that writes the record of a station anew
\* for every source; C22 rejects it
RECURSIVE AddStationsAnew(_, _, _, _, _)
AddStationsAnew(srcrcv, eid, coords, utm, i) ==
    IF i > Len(coords) THEN srcrcv
    ELSE LET c == coords[i]
             d1 == Put(srcrcv, c.sta, StationRecord(c, utm))
             ev == Get(d1, eid)
             g == gps2dist_azimuth(ev.lat, ev.lon,
                                   Get(d1, c.sta).lat, Get(d1, c.sta).lon)
             link == [dist_km |-> g.gcd, baz |-> g.baz]
             d2 == Put(d1, eid, [ev EXCEPT !.rcv = MapPut(@, c.sta, link)])
         IN  AddStationsAnew(d2, eid, coords, utm, i + 1)

\* for sta, sta_info in ds.get_all_coordinates().items(): lines 384-404.
\* The links of an event to its stations are the entry rcv of its record
RECURSIVE AddStations(_, _, _, _, _)
AddStations(srcrcv, eid, coords, utm, i) ==
    IF i > Len(coords) THEN srcrcv
    ELSE LET c == coords[i]
             d1 == IF Has(srcrcv, c.sta) THEN srcrcv
                   ELSE Put(srcrcv, c.sta, StationRecord(c, utm))
             ev == Get(d1, eid)
             g == gps2dist_azimuth(ev.lat, ev.lon,
                                   Get(d1, c.sta).lat, Get(d1, c.sta).lon)
             link == [dist_km |-> g.gcd, baz |-> g.baz]
             d2 == Put(d1, eid, [ev EXCEPT !.rcv = MapPut(@, c.sta, link)])
         IN  AddStations(d2, eid, coords, utm, i + 1)

\* Inspector.get_srcrcv: lines 356-404
get_srcrcv(o, ds) ==
    LET eid == event_id(ds)
        d0 == Put(o.srcrcv, eid, EventRecord(ds, o.utm))
    IN  [o |-> [o EXCEPT !.srcrcv = AddStations(d0, eid, ds.coords, o.utm, 1)],
         exc |-> ""]

\* r then F: F continues from the object r left unless r raised
Then(r, F(_)) == IF r.exc = "" THEN F(r.o) ELSE r

\* The body of the with statement of append: lines 212-217
Extract(o, ds, windows, srcrcv, misfits) ==
    LET W(x) == IF windows THEN get_windows(x, ds) ELSE [o |-> x, exc |-> ""]
        S(x) == IF srcrcv THEN get_srcrcv(x, ds) ELSE [o |-> x, exc |-> ""]
        M(x) == IF misfits THEN get_misfits(x, ds) ELSE [o |-> x, exc |-> ""]
    IN  Then(Then(W(o), S), M)

\* A faulty variant of Handle whose except clauses leave out KeyError; C10
\* rejects it
HandleOSErrorOnly(r) ==
    IF r.exc = "" THEN [o |-> r.o, ret |-> 1, exc |-> "", caught |-> ""]
    ELSE IF r.exc \in {"OSError"}
    THEN [o |-> r.o, ret |-> 0, exc |-> "", caught |-> r.exc]
    ELSE [o |-> r.o, ret |-> 0, exc |-> r.exc, caught |-> ""]

\* The return and the except clauses of append: lines 218-225.  caught names
\* the exception that made append return 0
Handle(r) ==
    IF r.exc = "" THEN [o |-> r.o, ret |-> 1, exc |-> "", caught |-> ""]
    ELSE IF r.exc \in {"OSError", "KeyError"}
    THEN [o |-> r.o, ret |-> 0, exc |-> "", caught |-> r.exc]
    ELSE [o |-> r.o, ret |-> 0, exc |-> r.exc, caught |-> ""]

\* Inspector.append: lines 196-225.  pyasdf.ASDFDataSet(dsfid) raises OSError
\* for a file that is already open
append(o, ds, windows, srcrcv, misfits) ==
    IF ds.locked THEN Handle([o |-> o, exc |-> "OSError"])
    ELSE Handle(Extract(o, ds, windows, srcrcv, misfits))

----------------------------------------------------------------------------
(* Derived metadata *)

\* A faulty variant of _get_info that files every key under the events;
\* C12 rejects it
_get_info_unsplit(o) ==
    IF o.misfits = <<>>
    THEN [o |-> [o EXCEPT !.stations = Some(<<>>), !.events = Some(KeyList(o.srcrcv))],
          exc |-> "IndexError"]
    ELSE [o |-> [o EXCEPT !.stations = Some(<<>>), !.events = Some(KeyList(o.srcrcv)),
                          !.models = Some(KeyList(o.misfits[1].ord)),
                          !.steps = Some([m \in DOMAIN o.misfits[1].v |->
                                             KeyList(Get(o.misfits[1].ord, m))]),
                          !.iterations = 0],
          exc |-> ""]

\* Inspector._get_info: lines 169-194
_get_info(o) ==
    LET keys == KeyList(o.srcrcv)
        stations == SelectSeq(keys, LAMBDA k : Contains(k, "."))
        events == SelectSeq(keys, LAMBDA k : ~Contains(k, "."))
        o1 == [o EXCEPT !.stations = Some(stations), !.events = Some(events)]
    IN  IF o.misfits = <<>> THEN [o |-> o1, exc |-> "IndexError"]
        ELSE LET first == o.misfits[1]
                 models == KeyList(first.ord)
                 steps == [m \in DOMAIN first.v |-> KeyList(Get(first.ord, m))]
             IN  [o |-> [o1 EXCEPT !.models = Some(models), !.steps = Some(steps),
                                   !.iterations =
                                       SumInts([i \in DOMAIN models |->
                                                   Len(steps[models[i]])])],
                  exc |-> ""]

\* Inspector._get_str: lines 89-117.  The summary is kept as its three counts
_get_str(o) ==
    IF o.events = None \/ o.stations = None \/ o.models = None
    THEN [o |-> o, exc |-> "TypeError"]
    ELSE [o |-> [o EXCEPT !.str = Some([events |-> Len(o.events[1]),
                                        stations |-> Len(o.stations[1]),
                                        models |-> Len(o.models[1])])],
          exc |-> ""]

\* _get_info() then _get_str(): lines 86-87 and 776-777
Refresh(o) == Then(_get_info(o), _get_str)

----------------------------------------------------------------------------
(* Reductions *)

\* Inspector.sort_by_model: lines 554-574, for d = self.misfits or
\* self.windows.  The view of a (model, step) lists its events in d's order,
\* each with its record and the order of the record's keys
sort_by_model(o, d) ==
    IF o.models = None \/ o.steps = None THEN Raise(EmptyMap, "TypeError")
    ELSE LET models == Elems(o.models[1])
             steps == o.steps[1]
             InModel(m) == SelectSeq(d, LAMBDA it : m \in DOMAIN it.v)
         IN  IF \E m \in models : m \notin DOMAIN steps
             THEN Raise(EmptyMap, "KeyError")
             ELSE IF \E m \in models : \E s \in Elems(steps[m]) :
                        \E i \in DOMAIN InModel(m) : s \notin DOMAIN InModel(m)[i].v[m]
             THEN Raise(EmptyMap, "KeyError")
             ELSE Ok([m \in models |-> [s \in Elems(steps[m]) |->
                        [i \in DOMAIN InModel(m) |->
                            [k |-> InModel(m)[i].k, v |-> InModel(m)[i].v[m][s],
                             ord |-> Get(Get(InModel(m)[i].ord, m), s)]]]])

\* for m in self.models: for s in self.steps[m]: the (model, step) pairs of
\* a view in the order of its keys, which is the order its loops visit
ViewPairs(o) ==
    Concat([i \in DOMAIN o.models[1] |->
               [j \in DOMAIN o.steps[1][o.models[1][i]] |->
                   <<o.models[1][i], o.steps[1][o.models[1][i]][j]>>]])

\* The sum of the scaled misfits of the stations of one event: lines 694-697
RECURSIVE SumMsft(_, _)
SumMsft(rec, stas) ==
    IF stas = {} THEN Rat(0, 1)
    ELSE LET x == CHOOSE y \in stas : TRUE
         IN  RAdd(rec[x].msft, SumMsft(rec, stas \ {x}))

\* total_misfit over the events of one (model, step): lines 692-698
RECURSIVE TotalMisfit(_, _)
TotalMisfit(evs, i) ==
    IF i > Len(evs) THEN Rat(0, 1)
    ELSE RAdd(SumMsft(evs[i].v, DOMAIN evs[i].v), TotalMisfit(evs, i + 1))

\* The loops of sum_misfits over models and steps: lines 690-700.  e is the
\* loop variable of enumerate, None until a loop has bound it
RECURSIVE SumPairs(_, _, _, _, _)
SumPairs(view, pairs, i, e, cmsft) ==
    IF i > Len(pairs) THEN Ok(cmsft)
    ELSE LET m == pairs[i][1]
             s == pairs[i][2]
             evs == view[m][s]
             e2 == IF evs = <<>> THEN e ELSE Some(Len(evs) - 1)
         IN  IF e2 = None THEN Raise(cmsft, "UnboundLocalError")
             ELSE SumPairs(view, pairs, i + 1, e2,
                           [cmsft EXCEPT ![m][s] =
                               RDivInt(TotalMisfit(evs, 1), e2[1] + 1)])

\* The body of sum_misfits for the view misfits: lines 689-702
SumView(view, pairs) ==
    SumPairs(view, pairs, 1, None,
             [m \in DOMAIN view |-> [s \in DOMAIN view[m] |-> Rat(0, 1)]])

\* r then F, for a result r that holds a value
ThenV(r, F(_)) == IF r.exc = "" THEN F(r.v) ELSE r

\* Inspector.sum_misfits: lines 678-702
sum_misfits(o) ==
    ThenV(sort_by_model(o, o.misfits), LAMBDA view : SumView(view, ViewPairs(o)))

----------------------------------------------------------------------------
(* Reductions over the windows *)

\* view[model][step] of a view sort_by_model returned, or what it raised
ViewOf(r, model, step) ==
    IF r.exc # "" THEN Raise(<<>>, r.exc)
    ELSE IF model \notin DOMAIN r.v THEN Raise(<<>>, "KeyError")
    ELSE IF step \notin DOMAIN r.v[model] THEN Raise(<<>>, "KeyError")
    ELSE Ok(r.v[model][step])

\* self.sort_by_model("windows")[model][step]: lines 278 and 595
WindowsView(o, model, step) == ViewOf(sort_by_model(o, o.windows), model, step)

\* for comp in record[sta]: the channels of a station, as the loops visit them
ChannelsOfStation(event, sta, chas, srec) ==
    [i \in DOMAIN chas |->
        [event |-> event, sta |-> sta, comp |-> chas[i], rec |-> srec[chas[i]]]]

\* for sta in record: the channels of the stations stas of the event of a
\* view item
ChannelsOfEvent(it, stas) ==
    Concat([i \in DOMAIN stas |->
               ChannelsOfStation(it.k, stas[i], KeyList(Get(it.ord, stas[i])),
                                 it.v[stas[i]])])

\* for event in view: the channels of all stations of all events
ChannelsOfView(view) ==
    Concat([i \in DOMAIN view |-> ChannelsOfEvent(view[i], KeyList(view[i].ord))])

\* The measurement names of a window record: lines 482-486
Choices == DOMAIN NoWindows

\* record[choice] of every channel, each value with its (event, sta, comp)
ValuesOf(channels, choice) ==
    Concat([i \in DOMAIN channels |->
               [j \in DOMAIN channels[i].rec[choice] |->
                   [value |-> channels[i].rec[choice][j],
                    info |-> <<channels[i].event, channels[i].sta,
                               channels[i].comp>>]]])

\* a < b for two tuples of str of one length, as Python compares tuples
RECURSIVE TupleLess(_, _)
TupleLess(a, b) ==
    IF a = <<>> THEN FALSE
    ELSE IF Head(a) = Head(b) THEN TupleLess(Tail(a), Tail(b))
    ELSE StrLess(Head(a), Head(b))

\* (value, info) < (value, info)
PairLess(a, b) ==
    \/ a.value < b.value
    \/ a.value = b.value /\ TupleLess(a.info, b.info)

\* sorted(zip(values, info)): line 603
RECURSIVE SortedPairs(_)
SortedPairs(ps) ==
    IF ps = <<>> THEN <<>>
    ELSE LET i == CHOOSE j \in DOMAIN ps : \A l \in DOMAIN ps : ~PairLess(ps[l], ps[j])
         IN  <<ps[i]>> \o SortedPairs([l \in 1..(Len(ps) - 1) |->
                                          IF l < i THEN ps[l] ELSE ps[l + 1]])

\* The loops and the sort of sort_by_window: lines 596-605.  Unpacking
\* zip(*sorted(...)) of no pairs into values, info raises ValueError
SortChannels(channels, choice) ==
    IF channels # <<>> /\ choice \notin Choices THEN Raise(<<>>, "KeyError")
    ELSE IF channels = <<>> \/ ValuesOf(channels, choice) = <<>>
    THEN Raise(<<>>, "ValueError")
    ELSE Ok([values |-> [i \in DOMAIN ValuesOf(channels, choice) |->
                            SortedPairs(ValuesOf(channels, choice))[i].value],
             info |-> [i \in DOMAIN ValuesOf(channels, choice) |->
                          SortedPairs(ValuesOf(channels, choice))[i].info]])

SortView(view, choice) == SortChannels(ChannelsOfView(view), choice)

\* Inspector.sort_by_window: lines 576-605
sort_by_window(o, model, step, choice) ==
    ThenV(WindowsView(o, model, step), LAMBDA view : SortView(view, choice))

\* The loops of window_values: lines 326-329
ListValues(channels, choice) ==
    [i \in DOMAIN ValuesOf(channels, choice) |-> ValuesOf(channels, choice)[i].value]

\* Inspector.window_values: lines 305-330
window_values(o, model, step, choice) ==
    IF choice \notin Choices THEN Raise(<<>>, "AssertionError")
    ELSE ThenV(WindowsView(o, model, step),
               LAMBDA view : Ok(ListValues(ChannelsOfView(view), choice)))

\* if eventid and event != eventid: continue (lines 280-281), and the same
\* for sta_code (lines 285-286).  None and "" are both written <<>>
Wanted(code, key) == code = <<>> \/ key = code

\* The channels event_stats visits for one event: lines 284-287
StatChannels(it, sta_code) ==
    ChannelsOfEvent(it, SelectSeq(KeyList(it.ord), LAMBDA sta : Wanted(sta_code, sta)))

\* events.append(event); msftval.append(misfit); nwins.append(nwin)
StatEntry(it, sta_code, choice) ==
    [nwin |-> Len(ListValues(StatChannels(it, sta_code), choice)),
     event |-> it.k,
     msft |-> ListValues(StatChannels(it, sta_code), choice)]

\* (nwin, event, msft) < (nwin, event, msft); no two entries share an event
StatLess(a, b) ==
    \/ a.nwin < b.nwin
    \/ a.nwin = b.nwin /\ StrLess(a.event, b.event)

\* zipped.sort(reverse=False): line 297
RECURSIVE SortedStats(_)
SortedStats(es) ==
    IF es = <<>> THEN <<>>
    ELSE LET i == CHOOSE j \in DOMAIN es : \A l \in DOMAIN es : ~StatLess(es[l], es[j])
         IN  <<es[i]>> \o SortedStats([l \in 1..(Len(es) - 1) |->
                                          IF l < i THEN es[l] ELSE es[l + 1]])

\* print_choice(msft) of line 301 for a caller who passes the builtin max or
\* min: ValueError for an empty list
PrintChoice(print_choice, vals) ==
    IF vals = <<>> THEN Raise(0, "ValueError")
    ELSE Ok(CHOOSE x \in {vals[i] : i \in DOMAIN vals} :
                \A i \in DOMAIN vals :
                    IF print_choice = "max" THEN vals[i] <= x ELSE x <= vals[i])

\* Lines 296-303: sort, unpack, print every line, return the three tuples
StatsOf(sorted, print_choice) ==
    IF sorted = <<>> THEN Raise(<<>>, "ValueError")
    ELSE IF \E i \in DOMAIN sorted : PrintChoice(print_choice, sorted[i].msft).exc # ""
    THEN Raise(<<>>, "ValueError")
    ELSE Ok([events |-> [i \in DOMAIN sorted |-> sorted[i].event],
             nwins |-> [i \in DOMAIN sorted |-> sorted[i].nwin],
             msftval |-> [i \in DOMAIN sorted |-> sorted[i].msft]])

\* Lines 279-303 over the events of the view the event filter lets through
StatsOfEvents(its, choice, sta_code, print_choice) ==
    IF choice \notin Choices
    THEN IF \E i \in DOMAIN its : StatChannels(its[i], sta_code) # <<>>
         THEN Raise(<<>>, "KeyError")
         ELSE StatsOf(SortedStats([i \in DOMAIN its |->
                          [nwin |-> 0, event |-> its[i].k, msft |-> <<>>]]),
                      print_choice)
    ELSE StatsOf(SortedStats([i \in DOMAIN its |-> StatEntry(its[i], sta_code, choice)]),
                 print_choice)

\* Inspector.event_stats: lines 245-303
event_stats(o, model, step, choice, sta_code, eventid, print_choice) ==
    ThenV(WindowsView(o, model, step),
          LAMBDA view : StatsOfEvents(SelectSeq(view, LAMBDA it : Wanted(eventid, it.k)),
                                      choice, sta_code, print_choice))

\* The loops of measurements over one (model, step): lines 665-672
MeasureView(view, choice) ==
    IF choice = "num_windows" THEN Len(ListValues(ChannelsOfView(view), "dlna"))
    ELSE SumInts(ListValues(ChannelsOfView(view), "length_s"))

\* Lines 655-676 once sort_by_model("windows") has returned or raised
Measured(o, r, choice) ==
    IF r.exc # "" THEN [o |-> o, ret |-> <<>>, exc |-> r.exc]
    ELSE [o |-> o,
          ret |-> [m \in DOMAIN r.v |->
                     [st \in DOMAIN r.v[m] |-> MeasureView(r.v[m][st], choice)]],
          exc |-> ""]

\* A faulty variant of Summarised that derives the metadata anew; C20
\* rejects it
SummarisedAfresh(o) == Refresh(o)

\* self._get_str(): line 654
Summarised(o) == _get_str(o)

\* Lines 655-676 after line 654
AfterSummary(r, choice) ==
    IF r.exc # "" THEN [o |-> r.o, ret |-> <<>>, exc |-> r.exc]
    ELSE Measured(r.o, sort_by_model(r.o, r.o.windows), choice)

\* Inspector.measurements: lines 644-676
measurements(o, choice) ==
    IF choice \notin {"cum_win_len", "num_windows"}
    THEN [o |-> o, ret |-> <<>>, exc |-> "AssertionError"]
    ELSE AfterSummary(Summarised(o), choice)

----------------------------------------------------------------------------
(* Reductions over the misfits *)

\* The characters of the names of models and steps, for the comparisons of
\* the code between such a name and a station id
Chars ==
    [n \in {"m00", "m01", "s00", "s01"} |->
        CASE n = "m00" -> <<"m", "0", "0">>
          [] n = "m01" -> <<"m", "0", "1">>
          [] n = "s00" -> <<"s", "0", "0">>
          [] n = "s01" -> <<"s", "0", "1">>]

\* for event in self.misfits: for model in self.misfits[event]: the pairs the
\* two outer loops visit, lines 616-617 and 344-345.  rec is
\* self.misfits[event][model] and ord the order of its keys
EventModels(misfits) ==
    Concat([i \in DOMAIN misfits |->
               [j \in DOMAIN misfits[i].ord |->
                   [event |-> misfits[i].k,
                    model |-> misfits[i].ord[j].k,
                    rec |-> misfits[i].v[misfits[i].ord[j].k],
                    ord |-> misfits[i].ord[j].v]]])

\* if model not in misfits: misfits[model] = {} and, for every step,
\* if step not in misfits[model]: misfits[model][step] = {}: lines 618-622
WithSteps(acc, model, rec) ==
    [m \in DOMAIN acc \cup {model} |->
        IF m # model THEN acc[m]
        ELSE [st \in (IF m \in DOMAIN acc THEN DOMAIN acc[m] ELSE {}) \cup DOMAIN rec |->
                 EmptyMap]]

\* for step in self.misfits[event][model]: for sta in ...[step]: the stations
\* the loops of lines 620-623 visit for one (event, model), in their order
StationsVisited(ord) == Concat([j \in DOMAIN ord |-> KeyList(ord[j].v)])

\* Lines 629-631 for the station sta: self.misfits[event][model][sta] looks
\* the station id up among the steps of the model and ["msft"] looks "msft"
\* up among the stations of that step.  Either lookup raises KeyError; when
\* both find an entry, 0 += a dictionary raises TypeError
FirstLookup(rec, sta) ==
    IF \E st \in DOMAIN rec :
          Chars[st] = sta /\ <<"m", "s", "f", "t">> \in DOMAIN rec[st]
    THEN "TypeError" ELSE "KeyError"

\* The body of the loop over models, lines 618-640, for the pair pairs[i].
\* step is the loop variable of line 620, "" while it is unbound; it
\* outlives its loop and line 638 reads it.  The first station visited makes
\* lines 629-631 raise, so the result holds no station
RECURSIVE ByStation(_, _, _, _)
ByStation(pairs, i, acc, step) ==
    IF i > Len(pairs) THEN Ok(acc)
    ELSE IF StationsVisited(pairs[i].ord) # <<>>
    THEN Raise(<<>>, FirstLookup(pairs[i].rec, Head(StationsVisited(pairs[i].ord))))
    ELSE IF pairs[i].ord = <<>> /\ step = ""
    THEN Raise(<<>>, "UnboundLocalError")
    ELSE IF pairs[i].ord = <<>>
            /\ step \notin DOMAIN WithSteps(acc, pairs[i].model, pairs[i].rec)[pairs[i].model]
    THEN Raise(<<>>, "KeyError")
    ELSE ByStation(pairs, i + 1, WithSteps(acc, pairs[i].model, pairs[i].rec),
                   IF pairs[i].ord = <<>> THEN step
                   ELSE pairs[i].ord[Len(pairs[i].ord)].k)

\* Inspector.sort_misfits_by_station: lines 607-642
sort_misfits_by_station(o) == ByStation(EventModels(o.misfits), 1, EmptyMap, "")

\* The stations of self.misfits[event][model][step], in their order
StationsOfStep(pair, step) == KeyList(Get(pair.ord, step))

\* The loops of misfit_values, lines 344-353: line 348 walks the station
\* ids of misfits[event][model][step] and line 349 compares each with step;
\* for one that is equal, line 351 walks the stations again
RECURSIVE MisfitValues(_, _, _, _)
MisfitValues(pairs, i, model, step) ==
    IF i > Len(pairs) THEN Ok(<<>>)
    ELSE IF pairs[i].model # model THEN MisfitValues(pairs, i + 1, model, step)
    ELSE IF step \notin DOMAIN pairs[i].rec THEN Raise(<<>>, "KeyError")
    ELSE ThenV(MisfitValues(pairs, i + 1, model, step),
               LAMBDA rest :
                   Ok(Concat([j \in DOMAIN StationsOfStep(pairs[i], step) |->
                                IF StationsOfStep(pairs[i], step)[j] # Chars[step]
                                THEN <<>>
                                ELSE [l \in DOMAIN StationsOfStep(pairs[i], step) |->
                                         pairs[i].rec[step][StationsOfStep(pairs[i], step)[l]].msft]])
                      \o rest))

\* Inspector.misfit_values: lines 332-354
misfit_values(o, model, step) == MisfitValues(EventModels(o.misfits), 1, model, step)

\* Inspector.event_info: lines 227-243.  A station record has some of the
\* names of choices too
EventChoices == {"depth_m", "lat", "lon", "mag", "time", "utm_x", "utm_y"}

event_info(o, choice) ==
    IF choice \notin EventChoices THEN Raise(<<>>, "AssertionError")
    ELSE Ok([i \in DOMAIN SelectSeq(o.srcrcv, LAMBDA it : choice \in DOMAIN it.v) |->
                [k |-> SelectSeq(o.srcrcv, LAMBDA it : choice \in DOMAIN it.v)[i].k,
                 v |-> SelectSeq(o.srcrcv, LAMBDA it : choice \in DOMAIN it.v)[i].v[choice]]])

----------------------------------------------------------------------------
(* Exclusion of events *)

\* bool(x) for an optional number: None and 0 are false
Truthy(x) == x # None /\ x[1] # 0

\* bool(x) for an optional UTCDateTime: only None is false
Given(x) == x # None

\* The arguments of exclude_events that leave every criterion out
NoCriteria ==
    [coords |-> None, depth_min |-> None, depth_max |-> None, mag_min |-> None,
     mag_max |-> None, starttime |-> None, endtime |-> None]

\* The if/elif chain for one event: lines 741-766.  coords is [] when the
\* argument is None (lines 731-732); "coords and a or b or c or d" then reads
\* coords[1].  ret tells whether the event is listed in events_outside
EventOutside(ev, c) ==
    IF c.coords = <<>> THEN [ret |-> FALSE, exc |-> "IndexError"]
    ELSE IF \/ ev.lat < c.coords[1]
            \/ ev.lat > c.coords[2]
            \/ ev.lon < c.coords[3]
            \/ ev.lon > c.coords[4]
    THEN [ret |-> TRUE, exc |-> ""]
    ELSE IF Truthy(c.depth_min) \/ Truthy(c.depth_max)
    THEN \* source_depth = depth_m * 1E-3 is compared in metres
         [ret |-> \/ (Truthy(c.depth_min) /\ ev.depth_m < c.depth_min[1] * 1000)
                  \/ (Truthy(c.depth_max) /\ ev.depth_m > c.depth_max[1] * 1000),
          exc |-> ""]
    ELSE IF Truthy(c.mag_min) \/ Truthy(c.mag_max)
    THEN [ret |-> \/ (Truthy(c.mag_min) /\ ev.mag < c.mag_min[1])
                  \/ (Truthy(c.mag_max) /\ ev.mag > c.mag_max[1]),
          exc |-> ""]
    ELSE IF Given(c.starttime) \/ Given(c.endtime)
    THEN [ret |-> \/ (Given(c.starttime) /\ UTCDateTime(ev.time) < c.starttime[1])
                  \/ (Given(c.endtime) /\ UTCDateTime(ev.time) < c.endtime[1]),
          exc |-> ""]
    ELSE [ret |-> FALSE, exc |-> ""]

\* for event in self.srcrcv.keys(): lines 735-766
RECURSIVE EventsOutside(_, _, _, _)
EventsOutside(srcrcv, c, i, acc) ==
    IF i > Len(srcrcv) THEN Ok(acc)
    ELSE IF Contains(srcrcv[i].k, ".") THEN EventsOutside(srcrcv, c, i + 1, acc)
    ELSE LET r == EventOutside(srcrcv[i].v, c)
         IN  IF r.exc # "" THEN Raise(acc, r.exc)
             ELSE EventsOutside(srcrcv, c, i + 1,
                                IF r.ret THEN Append(acc, srcrcv[i].k) ELSE acc)

\* A faulty variant of DelEvent that also deletes the stations the event is
\* linked to; C4 rejects it
RECURSIVE DelKeys(_, _)
DelKeys(d, ks) ==
    IF ks = {} THEN d
    ELSE LET k == CHOOSE x \in ks : TRUE
         IN  DelKeys(IF Has(d, k) THEN Del(d, k) ELSE d, ks \ {k})

DelEventAndStations(o, event) ==
    IF ~Has(o.misfits, event) THEN [o |-> o, exc |-> "KeyError"]
    ELSE IF ~Has(o.windows, event)
    THEN [o |-> [o EXCEPT !.misfits = Del(@, event)], exc |-> "KeyError"]
    ELSE IF ~Has(o.srcrcv, event)
    THEN [o |-> [o EXCEPT !.misfits = Del(@, event), !.windows = Del(@, event)],
          exc |-> "KeyError"]
    ELSE [o |-> [o EXCEPT !.misfits = Del(@, event), !.windows = Del(@, event),
                          !.srcrcv = DelKeys(Del(@, event),
                                             DOMAIN Get(o.srcrcv, event).rcv)],
          exc |-> ""]

\* The three del statements for one event: lines 771-773
DelEvent(o, event) ==
    IF ~Has(o.misfits, event) THEN [o |-> o, exc |-> "KeyError"]
    ELSE LET o1 == [o EXCEPT !.misfits = Del(@, event)]
         IN  IF ~Has(o1.windows, event) THEN [o |-> o1, exc |-> "KeyError"]
             ELSE LET o2 == [o1 EXCEPT !.windows = Del(@, event)]
                  IN  IF ~Has(o2.srcrcv, event) THEN [o |-> o2, exc |-> "KeyError"]
                      ELSE [o |-> [o2 EXCEPT !.srcrcv = Del(@, event)], exc |-> ""]

\* for event in events_outside: lines 770-773
RECURSIVE DelEvents(_, _, _)
DelEvents(o, events, i) ==
    IF i > Len(events) THEN [o |-> o, exc |-> ""]
    ELSE LET r == DelEvent(o, events[i])
         IN  IF r.exc # "" THEN r ELSE DelEvents(r.o, events, i + 1)

\* The removal of the events listed and the calls that follow it: lines
\* 768-777
Remove(o, events_outside) ==
    Then(DelEvents(o, events_outside, 1), Refresh)

WithRet(r, ret) == [o |-> r.o, ret |-> ret, exc |-> r.exc]

\* exclude_events once events_outside is known, or its loop has raised
Excluded(o, sel) ==
    IF sel.exc # "" THEN [o |-> o, ret |-> <<>>, exc |-> sel.exc]
    ELSE WithRet(Remove(o, sel.v), sel.v)

\* Inspector.exclude_events: lines 704-777.  The method returns None; ret
\* records its local events_outside
exclude_events(o, c) == Excluded(o, EventsOutside(o.srcrcv, c, 1, <<>>))

----------------------------------------------------------------------------
(* Persistence *)

\* A faulty variant of Variables that keeps every attribute; C6 rejects it
VariablesAll == AttrNames

\* [_ for _ in vars(self).keys() if '_' not in _]: lines 506 and 538
Variables == SelectSeq(AttrNames, LAMBDA a : ~Contains(a.name, "_"))

\* The items of a dictionary sorted by key, as json.dump(sort_keys=True)
\* writes them
RECURSIVE SortItems(_)
SortItems(d) ==
    IF d = <<>> THEN <<>>
    ELSE LET i == CHOOSE j \in DOMAIN d : \A l \in DOMAIN d : ~StrLess(d[l].k, d[j].k)
         IN  <<d[i]>> \o SortItems(SelectSeq(d, LAMBDA it : it.k # d[i].k))

\* The keys of the nested dictionaries of an item sorted at every depth:
\* the names of models and steps, then the ids of stations and channels
RECURSIVE SortedOrder(_, _)
SortedOrder(ord, depth) ==
    IF ord = <<>> THEN <<>>
    ELSE LET Key(i) == IF depth <= 2 THEN Chars[ord[i].k] ELSE ord[i].k
             i == CHOOSE j \in DOMAIN ord :
                     \A l \in DOMAIN ord : ~StrLess(Key(l), Key(j))
         IN  <<[k |-> ord[i].k, v |-> SortedOrder(ord[i].v, depth + 1)]>>
             \o SortedOrder(SelectSeq(ord, LAMBDA it : it.k # ord[i].k), depth)

\* An item of a dictionary as the file holds it
JsonItem(it) ==
    IF "ord" \in DOMAIN it THEN [it EXCEPT !.ord = SortedOrder(@, 1)] ELSE it

\* json.dump(save_dict, f, indent=4, sort_keys=True): the text of the file
\* is the document with the keys of every object sorted.  The dictionaries of
\* the Inspector have str keys and hold numbers, str and lists, which JSON
\* holds as they are
JsonDump(save_dict) ==
    SortItems([i \in DOMAIN save_dict |->
                  [k |-> save_dict[i].k,
                   v |-> IF save_dict[i].dict
                         THEN SortItems([j \in DOMAIN save_dict[i].v |->
                                            JsonItem(save_dict[i].v[j])])
                         ELSE save_dict[i].v]])

\* json.load(f): the objects of the document, their keys in file order
JsonLoad(text) == text

\* os.path.join(a, b)
PathJoin(a, b) ==
    IF b # <<>> /\ Head(b) = "/" THEN b
    ELSE IF a = <<>> \/ a[Len(a)] = "/" THEN a \o b
    ELSE a \o <<"/">> \o b

\* os.path.join(path, f"{tag}.json")
JsonFile(path, tag) == PathJoin(path, tag \o <<".", "j", "s", "o", "n">>)

\* The default of the argument path
DefaultPath == <<".", "/">>

\* save_dict[v] = getattr(self, v) for v in variables: lines 508-511
SaveDict(o, variables) ==
    [i \in DOMAIN variables |->
        [k |-> variables[i].name, v |-> o[variables[i].field],
         dict |-> variables[i].dict]]

\* Inspector.save: lines 497-516.  The value is the files after the call
save(o, files, tag, path) ==
    Put(files, JsonFile(path, tag), JsonDump(SaveDict(o, Variables)))

\* Inspector.write: lines 518-527
write(o, files, tag, path) == save(o, files, tag, path)

\* setattr(self, v, loaded_variables[v]) for v in variables: lines 547-548
RECURSIVE SetAttrs(_, _, _, _)
SetAttrs(o, variables, loaded, i) ==
    IF i > Len(variables) THEN [o |-> o, ret |-> 0, exc |-> ""]
    ELSE IF ~Has(loaded, variables[i].name)
    THEN [o |-> o, ret |-> 0, exc |-> "KeyError"]
    ELSE SetAttrs([o EXCEPT ![variables[i].field] = Get(loaded, variables[i].name)],
                  variables, loaded, i + 1)

\* Inspector.load: lines 529-552
LoadFile(o, files, name) ==
    IF ~Has(files, name) THEN [o |-> o, ret |-> 0, exc |-> ""]
    ELSE [SetAttrs(o, Variables, JsonLoad(Get(files, name)), 1) EXCEPT !.ret = 1]

load(o, files, tag, path) ==
    LoadFile(o, files,
             JsonFile(path,
                      IF EndsWith(tag, <<".", "j", "s", "o", "n">>)
                      THEN Split(tag, ".")[1] ELSE tag))

----------------------------------------------------------------------------
(* Construction *)

\* for i, dsfid in enumerate(dsfids): status = self.append(...): lines 79-84.
\* statuses lists the value append returned for every source it returned for
RECURSIVE Ingest(_, _, _, _, _, _, _)
Ingested(r, dsfids, i, windows, srcrcv, misfits, statuses) ==
    IF r.exc # "" THEN [o |-> r.o, statuses |-> statuses, exc |-> r.exc]
    ELSE Ingest(r.o, dsfids, i + 1, windows, srcrcv, misfits, Append(statuses, r.ret))

Ingest(o, dsfids, i, windows, srcrcv, misfits, statuses) ==
    IF i > Len(dsfids) THEN [o |-> o, statuses |-> statuses, exc |-> ""]
    ELSE Ingested(append(o, dsfids[i], windows, srcrcv, misfits),
                  dsfids, i, windows, srcrcv, misfits, statuses)

\* Inspector.__init__: lines 40-87.  tag and path are None or Some(value), the
\* value of path being the datasets glob lists for it, in glob's order
Loaded(l) == [o |-> l.o, statuses |-> <<l.ret>>, exc |-> l.exc]

\* if status: self._get_info(); self._get_str(): lines 85-87.  status is 0
\* (line 58) or what the last load or append returned
Finish(r) ==
    IF r.exc # "" THEN r
    ELSE IF r.statuses # <<>> /\ r.statuses[Len(r.statuses)] # 0
    THEN [o |-> Refresh(r.o).o, statuses |-> r.statuses, exc |-> Refresh(r.o).exc]
    ELSE r

__init__(files, tag, path, misfits, srcrcv, windows, utm) ==
    Finish(IF tag # None THEN Loaded(load(NewInspector(utm), files, tag[1], DefaultPath))
           ELSE IF path # None
           THEN Ingest(NewInspector(utm), path[1], 1, windows, srcrcv, misfits, <<>>)
           ELSE [o |-> NewInspector(utm), statuses |-> <<>>, exc |-> ""])

----------------------------------------------------------------------------
(* Datasets.  Magnitudes are in tenths, depths in metres, times in seconds *)

E1 == <<"e", "1">>

E2 == <<"e", "2">>

E3 == <<"e", "3">>

E4 == <<"e", "4">>

E5 == <<"e", "5">>

StaA == <<"N", "Z", ".", "A">>

StaB == <<"N", "Z", ".", "B">>

\* A station id that is also the name of a step
StaS00 == <<"s", "0", "0">>

\* The channel NZ.<sta>..<cha> of a station code and a component
Chan(sta, cha) == <<"N", "Z", ".", sta, ".", ".", cha>>

Win(cid, start, end, shift, dlna) ==
    [channel_id |-> cid, dlnA |-> dlna, window_weight |-> 1, max_cc_value |-> 1,
     relative_starttime |-> start, relative_endtime |-> end,
     cc_shift_in_seconds |-> shift]

Adj(sta, misfit) == [station_id |-> sta, misfit_value |-> misfit]

Coord(sta, lat, lon, elv) ==
    [sta |-> sta, latitude |-> lat, longitude |-> lon, elevation_in_m |-> elv]

Group(name, steps) == [name |-> name, steps |-> steps]

WinStep(name, items) == [name |-> name, items |-> items]

AdjStep(name, items, num_win) == [name |-> name, items |-> items, num_win |-> num_win]

BothStations == <<Coord(StaA, -41, 174, 10), Coord(StaB, -39, 176, 20)>>

WindowsS00 ==
    <<Win(Chan("A", "Z"), 10, 25, 3, 1), Win(Chan("B", "Z"), 5, 35, -1, 2),
      Win(Chan("A", "Z"), 40, 60, 2, -2)>>

\* Event e1, model m00 with the step s00: station totals 1/2 and 1/2
DsA ==
    [locked |-> FALSE, eid |-> E1, mag |-> 45,
     origin |-> [latitude |-> -40, longitude |-> 175, depth |-> 10000, time |-> 100],
     coords |-> BothStations,
     MisfitWindows |-> <<Group("m00", <<WinStep("s00", WindowsS00)>>)>>,
     AdjointSources |->
        <<Group("m00", <<AdjStep("s00", <<Adj(StaA, 2), Adj(StaB, 1), Adj(StaA, 3)>>,
                                 MapPut(MapPut(EmptyMap, StaA, 5), StaB, 1))>>)>>]

\* Event e2, model m00 with the steps s00 and s01
DsB ==
    [locked |-> FALSE, eid |-> E2, mag |-> 60,
     origin |-> [latitude |-> -38, longitude |-> 177, depth |-> 30000, time |-> 200],
     coords |-> <<Coord(StaA, -41, 174, 10)>>,
     MisfitWindows |->
        <<Group("m00", <<WinStep("s00", <<Win(Chan("A", "Z"), 0, 30, 4, 1)>>),
                         WinStep("s01", <<Win(Chan("A", "N"), 0, 20, 1, 0)>>)>>)>>,
     AdjointSources |->
        <<Group("m00", <<AdjStep("s00", <<Adj(StaA, 6)>>, MapPut(EmptyMap, StaA, 1)),
                         AdjStep("s01", <<Adj(StaA, 4)>>, MapPut(EmptyMap, StaA, 2))>>)>>]

\* Event e3 whose window counts lack station NZ.B
DsK ==
    [locked |-> FALSE, eid |-> E3, mag |-> 70,
     origin |-> [latitude |-> -42, longitude |-> 173, depth |-> 50000, time |-> 300],
     coords |-> BothStations,
     MisfitWindows |-> <<Group("m00", <<WinStep("s00", WindowsS00)>>)>>,
     AdjointSources |->
        <<Group("m00", <<AdjStep("s00", <<Adj(StaA, 2), Adj(StaB, 4)>>,
                                 MapPut(EmptyMap, StaA, 1))>>)>>]

\* Event e3 whose window count of station NZ.A is zero
DsZ ==
    [DsK EXCEPT !.AdjointSources =
        <<Group("m00", <<AdjStep("s00", <<Adj(StaA, 2), Adj(StaB, 4)>>,
                                 MapPut(MapPut(EmptyMap, StaA, 0), StaB, 2))>>)>>]

\* Event e3 in a file that is already open
DsO == [DsK EXCEPT !.locked = TRUE]

\* Event e4, which lists the model m01, without steps, before m00, and in
\* the step s00 of m00 station NZ.B before NZ.A, with a station named as the
\* step between them: scaled misfits 3, 2 and 1/2
DsR ==
    [locked |-> FALSE, eid |-> E4, mag |-> 55,
     origin |-> [latitude |-> -37, longitude |-> 178, depth |-> 20000, time |-> 180],
     coords |-> BothStations,
     MisfitWindows |->
        <<Group("m01", <<>>),
          Group("m00", <<WinStep("s00", <<Win(Chan("B", "Z"), 0, 10, 7, 1),
                                          Win(Chan("A", "Z"), 5, 25, 2, 1),
                                          Win(Chan("A", "N"), 0, 10, 4, 1)>>)>>)>>,
     AdjointSources |->
        <<Group("m01", <<>>),
          Group("m00", <<AdjStep("s00", <<Adj(StaB, 6), Adj(StaS00, 4), Adj(StaA, 2)>>,
                                 MapPut(MapPut(MapPut(EmptyMap, StaB, 1), StaS00, 1),
                                        StaA, 2))>>)>>]

\* Event e5, whose step s00 of m00 holds no window and no adjoint source
DsE ==
    [locked |-> FALSE, eid |-> E5, mag |-> 65,
     origin |-> [latitude |-> -40, longitude |-> 176, depth |-> 15000, time |-> 220],
     coords |-> BothStations,
     MisfitWindows |-> <<Group("m00", <<WinStep("s00", <<>>)>>)>>,
     AdjointSources |-> <<Group("m00", <<AdjStep("s00", <<>>, EmptyMap)>>)>>]

Catalogue == {DsA, DsB, DsK, DsZ, DsO, DsR, DsE}

\* The values of the arguments (windows, srcrcv, misfits)
Flags == {<<TRUE, TRUE, TRUE>>, <<FALSE, TRUE, TRUE>>, <<TRUE, TRUE, FALSE>>}

DefaultUtm == -60

\* The sequences of at most n different elements of S: what glob lists for a
\* directory holding some of the datasets
RECURSIVE Listings(_, _)
Listings(S, n) ==
    IF n = 0 THEN {<<>>}
    ELSE LET shorter == Listings(S, n - 1)
         IN  shorter \cup
             {Append(p[1], p[2]) :
                 p \in {q \in shorter \X S :
                           /\ Len(q[1]) = n - 1
                           /\ \A i \in DOMAIN q[1] : q[1][i] # q[2]}}

WideBox == <<-90, 90, -180, 180>>

NarrowBox == <<-39, -30, 170, 180>>

\* The arguments tried for exclude_events: coords, depths in km, magnitudes
\* in tenths, times in seconds
Criteria ==
    {[coords |-> b, depth_min |-> d[1], depth_max |-> d[2], mag_min |-> m[1],
      mag_max |-> m[2], starttime |-> t[1], endtime |-> t[2]] :
        b \in {None, WideBox, NarrowBox},
        d \in {<<None, None>>, <<Some(5), Some(40)>>},
        m \in {<<None, None>>, <<Some(50), Some(90)>>},
        t \in {<<None, None>>, <<Some(150), Some(250)>>}}

----------------------------------------------------------------------------
(* The program: an Inspector is built, then its methods are called *)

MaxSources == 3

MaxCalls == 2

\* The record of a call: its name, its arguments, the value it returned, the
\* exception that left it, the object before it, the number of calls so far
\* and the last save (its tag and the object saved), None before any
Call(op, arg, ret, exc) ==
    [op |-> op, arg |-> arg, ret |-> ret, exc |-> exc, pre |-> self,
     n |-> last.n + 1, saved |-> last.saved]

\* insp = Inspector()
NoCall ==
    /\ self = NewInspector(DefaultUtm)
    /\ fs = <<>>
    /\ last = [op |-> "start", arg |-> <<>>, ret |-> <<>>, exc |-> "",
               pre |-> NewInspector(DefaultUtm), n |-> 0, saved |-> None]

Init == NoCall /\ flow = None /\ streams = None /\ asdf = None

\* The state after a call that left the object r.o
Called(o, op, arg, ret, exc) ==
    /\ self' = o
    /\ last' = Call(op, arg, ret, exc)
    /\ UNCHANGED others

\* insp = Inspector(path=..., misfits=..., srcrcv=..., windows=...), in place
\* of Inspector().  A constructor that raises leaves no new object
Constructed(r, arg) ==
    Called(IF r.exc = "" THEN r.o ELSE self, "__init__", arg, r.statuses, r.exc)

Construct(sources, flags) ==
    /\ last.op = "start"
    /\ \E l \in Listings(sources, MaxSources), f \in flags :
          Constructed(__init__(fs, None, Some(l), f[3], f[2], f[1], DefaultUtm),
                      [path |-> l, flags |-> f])
    /\ UNCHANGED fs

\* insp.append(dsfid, windows, srcrcv, misfits)
Appended(r, arg) ==
    Called(r.o, "append", arg, [status |-> r.ret, caught |-> r.caught], r.exc)

DoAppend(sources, flags) ==
    /\ \E ds \in sources, f \in flags :
          Appended(append(self, ds, f[1], f[2], f[3]), [ds |-> ds, flags |-> f])
    /\ UNCHANGED fs

\* insp.exclude_events(...)
Returned(r, op, arg) == Called(r.o, op, arg, r.ret, r.exc)

DoExclude(criteria) ==
    /\ \E c \in criteria : Returned(exclude_events(self, c), "exclude_events", c)
    /\ UNCHANGED fs

\* insp.sum_misfits()
Reduced(r, op, arg) == Called(self, op, arg, r.v, r.exc)

DoSumMisfits ==
    /\ Reduced(sum_misfits(self), "sum_misfits", <<>>)
    /\ UNCHANGED fs

\* insp._get_info()
DoGetInfo ==
    /\ Called(_get_info(self).o, "_get_info", <<>>, <<>>, _get_info(self).exc)
    /\ UNCHANGED fs

\* Inspector.sort_by_model with its assertion: lines 554-574
SortByChoice(o, choice) ==
    IF choice \notin {"misfits", "windows"} THEN Raise(EmptyMap, "AssertionError")
    ELSE sort_by_model(o, IF choice = "misfits" THEN o.misfits ELSE o.windows)

\* The arguments of the reductions
Models == {"m00", "m01"}

Steps == {"s00", "s01"}

WindowChoices == {"cc_shift_sec", "length_s", "nope"}

Codes(S) == {<<>>} \cup S

\* insp.sort_by_model(choice)
DoSortByModel ==
    /\ \E c \in {"misfits", "windows", "srcrcv"} :
          Reduced(SortByChoice(self, c), "sort_by_model", c)
    /\ UNCHANGED fs

\* insp.sort_by_window(model, step, choice)
DoSortByWindow ==
    /\ \E m \in Models, st \in Steps, c \in WindowChoices :
          Reduced(sort_by_window(self, m, st, c), "sort_by_window",
                  [model |-> m, step |-> st, choice |-> c])
    /\ UNCHANGED fs

\* insp.window_values(model, step, choice)
DoWindowValues ==
    /\ \E m \in Models, st \in Steps, c \in WindowChoices :
          Reduced(window_values(self, m, st, c), "window_values",
                  [model |-> m, step |-> st, choice |-> c])
    /\ UNCHANGED fs

\* insp.event_stats(model, step, choice, sta_code, eventid, print_choice)
DoEventStats ==
    /\ \E m \in Models, st \in Steps, c \in WindowChoices,
          sta \in Codes({StaA, StaB}), e \in Codes({E2}), f \in {"max", "min"} :
          Reduced(event_stats(self, m, st, c, sta, e, f), "event_stats",
                  [model |-> m, step |-> st, choice |-> c, sta_code |-> sta,
                   eventid |-> e, print_choice |-> f])
    /\ UNCHANGED fs

\* insp.misfit_values(model, step)
DoMisfitValues ==
    /\ \E m \in Models, st \in Steps :
          Reduced(misfit_values(self, m, st), "misfit_values",
                  [model |-> m, step |-> st])
    /\ UNCHANGED fs

\* insp.sort_misfits_by_station()
DoSortMisfitsByStation ==
    /\ Reduced(sort_misfits_by_station(self), "sort_misfits_by_station", <<>>)
    /\ UNCHANGED fs

\* insp.measurements(choice)
DoMeasurements ==
    /\ \E c \in {"cum_win_len", "num_windows", "nope"} :
          Returned(measurements(self, c), "measurements", c)
    /\ UNCHANGED fs

\* insp.event_info(choice)
DoEventInfo ==
    /\ \E c \in {"mag", "lat", "nope"} : Reduced(event_info(self, c), "event_info", c)
    /\ UNCHANGED fs

ConstructAny == last.n < MaxCalls /\ Construct(Catalogue, Flags)

AppendAny == last.n < MaxCalls /\ DoAppend(Catalogue, Flags)

ExcludeAny == last.n < MaxCalls /\ DoExclude(Criteria)

SumMisfitsAny == last.n < MaxCalls /\ DoSumMisfits

GetInfoAny == last.n < MaxCalls /\ DoGetInfo

SortByModelAny == last.n < MaxCalls /\ DoSortByModel

SortByWindowAny == last.n < MaxCalls /\ DoSortByWindow

WindowValuesAny == last.n < MaxCalls /\ DoWindowValues

EventStatsAny == last.n < MaxCalls /\ DoEventStats

MisfitValuesAny == last.n < MaxCalls /\ DoMisfitValues

SortMisfitsByStationAny == last.n < MaxCalls /\ DoSortMisfitsByStation

MeasurementsAny == last.n < MaxCalls /\ DoMeasurements

EventInfoAny == last.n < MaxCalls /\ DoEventInfo

Next ==
    \/ ConstructAny
    \/ AppendAny
    \/ ExcludeAny
    \/ SumMisfitsAny
    \/ GetInfoAny
    \/ SortByModelAny
    \/ SortByWindowAny
    \/ WindowValuesAny
    \/ EventStatsAny
    \/ MisfitValuesAny
    \/ SortMisfitsByStationAny
    \/ MeasurementsAny
    \/ EventInfoAny

Spec == Init /\ [][Next]_vars

----------------------------------------------------------------------------
(* Persistence: an Inspector is built from a directory, events may be     *)
(* excluded, the Inspector is saved or written under a tag in a directory, *)
(* and a saved file is loaded into it or into a new Inspector              *)

MaxPersistCalls == 5

Tags == {<<"r">>, <<"r", ".", "j", "s", "o", "n">>, <<"a", ".", "b">>}

PersistSources == {DsA, DsB, DsK}

\* Only a bounding box is given
PersistCriteria ==
    {c \in Criteria : c.depth_min = None /\ c.mag_min = None /\ c.starttime = None}

\* The directories named by the argument path: the default and a directory
\* that exists
Paths == {DefaultPath, <<"o", "u", "t">>}

\* The state after insp.save(tag, path) or insp.write(tag, path) has left
\* the files files
Saved(files, op, tag, path) ==
    /\ fs' = files
    /\ last' = [Call(op, [tag |-> tag, path |-> path], <<>>, "") EXCEPT
                   !.saved = Some([tag |-> tag, path |-> path, o |-> self])]
    /\ UNCHANGED <<self, others>>

\* insp.save(tag, path)
DoSave ==
    \E tag \in Tags, path \in Paths : Saved(save(self, fs, tag, path), "save", tag, path)

\* insp.write(tag, path)
DoWrite ==
    \E tag \in Tags, path \in Paths :
        Saved(write(self, fs, tag, path), "write", tag, path)

\* insp = Inspector()
DoNew ==
    /\ Called(NewInspector(DefaultUtm), "new", <<>>, <<>>, "")
    /\ UNCHANGED fs

\* insp.load(tag, path)
DoLoad ==
    /\ \E tag \in Tags, path \in Paths :
          Returned(load(self, fs, tag, path), "load", [tag |-> tag, path |-> path])
    /\ UNCHANGED fs

PBuild == last.n < MaxPersistCalls /\ Construct(PersistSources, Flags)

PExclude ==
    /\ last.n < MaxPersistCalls
    /\ last.op \in {"__init__", "save", "write"}
    /\ DoExclude(PersistCriteria)

PSave ==
    /\ last.n < MaxPersistCalls
    /\ last.op \in {"__init__", "exclude_events", "save", "write"}
    /\ DoSave

PWrite ==
    /\ last.n < MaxPersistCalls
    /\ last.op \in {"__init__", "exclude_events", "save", "write"}
    /\ DoWrite

PNew == last.n < MaxPersistCalls /\ last.op \in {"save", "write"} /\ DoNew

PLoad ==
    /\ last.n < MaxPersistCalls
    /\ last.op \in {"save", "write", "exclude_events", "new"}
    /\ last.saved # None
    /\ DoLoad

NextPersist == PBuild \/ PExclude \/ PSave \/ PWrite \/ PNew \/ PLoad

SpecPersist == Init /\ [][NextPersist]_vars

----------------------------------------------------------------------------
(* Misfit scaling: one dataset is appended to a new Inspector.  Its step   *)
(* s00 holds any sequence of at most MaxContrib adjoint sources of two     *)
(* stations and any window counts for them                                 *)

MaxContrib == 3

\* The sequences of at most n elements of S
RECURSIVE SeqsUpTo(_, _)
SeqsUpTo(S, n) ==
    IF n = 0 THEN {<<>>}
    ELSE SeqsUpTo(S, n - 1) \cup
         {Append(p[1], p[2]) : p \in {q \in SeqsUpTo(S, n - 1) \X S : Len(q[1]) = n - 1}}

Contributions == {Adj(sta, v) : sta \in {StaA, StaB}, v \in {2, 3}}

\* What count_misfit_windows may report: a count for some of the stations
WindowCounts ==
    UNION {[stas -> {0, 1, 5}] : stas \in SUBSET {StaA, StaB}}

\* Event e1 with the adjoint sources items and the window counts num_win in
\* the step s00 of m00, followed by a step s01
GenDs(items, num_win) ==
    [DsA EXCEPT !.AdjointSources =
        <<Group("m00", <<AdjStep("s00", items, num_win),
                         AdjStep("s01", <<Adj(StaA, 4)>>, MapPut(EmptyMap, StaA, 2))>>)>>]

AllTrue == <<TRUE, TRUE, TRUE>>

AppendGen ==
    /\ last.op = "start"
    /\ \E items \in SeqsUpTo(Contributions, MaxContrib), num_win \in WindowCounts :
          Appended(append(self, GenDs(items, num_win), TRUE, TRUE, TRUE),
                   [ds |-> GenDs(items, num_win), flags |-> AllTrue])
    /\ UNCHANGED fs

NextMisfits == AppendGen

SpecMisfits == Init /\ [][NextMisfits]_vars

----------------------------------------------------------------------------
(* Window extraction: a dataset whose step s00 holds any sequence of at    *)
(* most MaxWindows windows is appended to a new Inspector, then one more   *)
(* dataset is appended                                                     *)

MaxWindows == 3

\* Windows of three channels, a window without its dlnA and a window whose
\* channel id has no location and channel
WindowItems ==
    {Win(Chan(c[1], c[2]), t[1], t[2], t[3], 1) :
        c \in {<<"A", "Z">>, <<"A", "N">>, <<"B", "Z">>},
        t \in {<<0, 10, 2>>, <<5, 25, -3>>}}
    \cup {[channel_id |-> Chan("A", "Z"), window_weight |-> 1, max_cc_value |-> 1,
           relative_starttime |-> 0, relative_endtime |-> 10,
           cc_shift_in_seconds |-> 2],
          Win(StaA, 0, 10, 2, 1)}

\* Event e1 with the windows items in the step s00 of m00, followed by a
\* step s01
GenWindows(items) ==
    [DsA EXCEPT !.MisfitWindows =
        <<Group("m00", <<WinStep("s00", items),
                         WinStep("s01", <<Win(Chan("A", "N"), 0, 20, 1, 0)>>)>>)>>]

AppendWindows ==
    /\ last.op = "start"
    /\ \E items \in SeqsUpTo(WindowItems, MaxWindows) :
          Appended(append(self, GenWindows(items), TRUE, TRUE, TRUE),
                   [ds |-> GenWindows(items), flags |-> AllTrue])
    /\ UNCHANGED fs

\* Event e2 in a source that lists station NZ.A at other coordinates
DsM == [DsB EXCEPT !.coords = <<Coord(StaA, -42, 173, 15), Coord(StaB, -39, 176, 20)>>]

\* A second append, of the same event or of another one
AppendMore ==
    /\ last.op = "append"
    /\ last.n = 1
    /\ \E ds \in {DsA, DsB, DsM} :
          Appended(append(self, ds, TRUE, TRUE, TRUE), [ds |-> ds, flags |-> AllTrue])
    /\ UNCHANGED fs

NextWindows == AppendWindows \/ AppendMore

SpecWindows == Init /\ [][NextWindows]_vars

----------------------------------------------------------------------------
(* Pyaflowa: the plugin object of a workflow, the directories it makes and *)
(* its public methods.  A path is the sequence of its components; the      *)
(* functions of pyatoa.utils.io are calls of collaborators that return or  *)
(* raise                                                                   *)

MaxStations == 3

MaxProcessCalls == 3

\* The Manager methods of the try block, in the order of lines 194-199
Workflow ==
    <<"reset", "gather", "standardize", "preprocess", "window", "measure">>

\* paths["PYATOA_IO"] and the current working directory of an event
PyatoaIo == <<"io">>

Cwd == <<"scratch", "e1">>

\* self.figures_dir and self.maps_dir: lines 67-68
FiguresDir == PyatoaIo \o <<"figures">>

MapsDir == PyatoaIo \o <<"figures", "maps">>

\* The directories __init__ distributes: lines 64-70
InternalDirs ==
    {FiguresDir, PyatoaIo \o <<"data">>, PyatoaIo \o <<"data", "misfits">>,
     MapsDir, PyatoaIo \o <<"figures", "vtks">>,
     PyatoaIo \o <<"figures", "composites">>, PyatoaIo \o <<"data", "snapshot">>}

\* os.makedirs(p): the directory and every directory above it
makedirs(dirs, p) == dirs \cup {SubSeq(p, 1, k) : k \in 1..Len(p)}

\* The STATIONS file of the event, if it has one, is in its DATA directory
StationsFile == Cwd \o <<"DATA", "STATIONS">>

\* os.path.exists(p), stations telling whether the STATIONS file is there
exists(dirs, stations, p) == p \in dirs \/ (p = StationsFile /\ stations # None)

\* model of pyatoa.utils.format: the name of the model of a number
format_model(n) == <<"m00", "m01", "m02", "m03">>[n + 1]

\* Pyaflowa.__init__: lines 37-83.  par gives par["PYATOA"]["fix_windows"],
\* par["CASE"], par["PYATOA"]["plot_waveforms"] and the level that
\* par["PYATOA"]["set_logging"] gives the logger pyatoa; stations is the
\* number of rows of the STATIONS file, None without a file.  calls lists the
\* Manager methods process has called, finalized counts its calls of
\* finalize_process, exported lists the collaborators finalize_process called
Pyaflowa(par, stations) ==
    [iteration |-> 0, step |-> 0, fix_windows |-> par.fix_windows,
     synthetics_only |-> Lower(par.case) = <<"s", "y", "n", "t", "h", "e", "t", "i", "c">>,
     plot_waveforms |-> par.plot_waveforms, set_logging |-> par.set_logging,
     stations |-> stations,
     dirs |-> UNION {makedirs({}, d) : d \in InternalDirs}
              \cup makedirs({}, IF stations # None THEN Cwd \o <<"DATA">> ELSE Cwd),
     level |-> "WARNING", calls |-> <<>>, finalized |-> 0, exported |-> <<>>,
     ignored |-> <<>>, op |-> "__init__", exc |-> "", n |-> 0]

\* Pyaflowa.model_number: lines 85-90
ModelNumber(o) == format_model(IF o.iteration - 1 > 0 THEN o.iteration - 1 ELSE 0)

\* The attributes that the keyword arguments tried here may name
Attributes == {"iteration", "step", "fix_windows", "synthetics_only"}

\* Pyaflowa.set: lines 99-111.  A keyword that names no attribute is warned
\* about and ignored
RECURSIVE set(_, _, _)
set(o, kwargs, i) ==
    IF i > Len(kwargs) THEN o
    ELSE IF kwargs[i].k \in Attributes
    THEN set([o EXCEPT ![kwargs[i].k] = kwargs[i].v], kwargs, i + 1)
    ELSE set([o EXCEPT !.ignored = Append(@, kwargs[i].k)], kwargs, i + 1)

\* The directories of ev_paths that do not exist are made: lines 128-137
EventDirs(o, ev_paths, i) ==
    IF exists(o.dirs, o.stations, ev_paths[i]) THEN {} ELSE makedirs({}, ev_paths[i])

\* Pyaflowa.setup_process: lines 113-159.  The Config of config.py takes no
\* argument yaml_fid: line 149 raises TypeError
setup_process(o, cwd, ev_id) ==
    LET eid == IF ev_id = None THEN cwd[Len(cwd)] ELSE ev_id[1]
        ev_paths == <<cwd \o <<"DATA", "STATIONS">>, MapsDir \o <<eid>>,
                      FiguresDir \o <<ModelNumber(o), eid>>>>
    IN  Raise([o EXCEPT
                 !.dirs = @ \cup UNION {EventDirs(o, ev_paths, i) : i \in DOMAIN ev_paths},
                 !.level = CASE o.set_logging = "info" -> "INFO"
                             [] o.set_logging = "debug" -> "DEBUG"
                             [] OTHER -> @],
              "TypeError")

\* Pyaflowa.process: lines 161-247.  Line 172 raises, so that no dataset is
\* opened, no Manager method is called and finalize_process is not called
process(o, cwd, ev_id) == setup_process(o, cwd, ev_id)

\* Pyaflowa.finalize_process: lines 249-300.  written and created tell
\* whether write_adj_src_to_ascii and create_stations_adjoint return; line
\* 279 then reads self.int_paths, an attribute that is never set
finalize_process(o, written, created) ==
    IF ~written THEN Raise([o EXCEPT !.exported = <<"write_adj_src_to_ascii">>], "Exception")
    ELSE IF ~created
    THEN Raise([o EXCEPT !.exported = <<"write_adj_src_to_ascii", "create_stations_adjoint">>],
               "Exception")
    ELSE Raise([o EXCEPT !.exported = <<"write_adj_src_to_ascii", "create_stations_adjoint">>],
               "AttributeError")

\* Pyaflowa.finalize: lines 302-327.  The arguments of plot_output_optim read
\* self.int_paths
finalize(o) == Raise(o, "AttributeError")

Cases ==
    {<<"S", "y", "n", "t", "h", "e", "t", "i", "c">>, <<"d", "a", "t", "a">>}

InitProcess ==
    /\ NoCall
    /\ \E fix \in BOOLEAN, case \in Cases, plot \in BOOLEAN,
          level \in {"", "info", "debug"},
          stations \in {None} \cup {Some(r) : r \in 0..MaxStations} :
          flow = Pyaflowa([fix_windows |-> fix, case |-> case, plot_waveforms |-> plot,
                           set_logging |-> level], stations)
    /\ streams = None /\ asdf = None

\* The state after a call of a method of the Pyaflowa that left r
Flowed(r, op) ==
    /\ flow' = [r.v EXCEPT !.op = op, !.exc = r.exc, !.n = flow.n + 1]
    /\ UNCHANGED <<self, fs, last, streams, asdf>>

Kwargs ==
    {<<[k |-> "iteration", v |-> 1]>>, <<[k |-> "iteration", v |-> 2]>>,
     <<[k |-> "step", v |-> 1]>>, <<[k |-> "data", v |-> 1]>>,
     <<[k |-> "data", v |-> 1], [k |-> "iteration", v |-> 3]>>}

\* pyaflowa.set(**kwargs)
Set ==
    /\ flow.n < MaxProcessCalls
    /\ \E kwargs \in Kwargs : Flowed(Ok(set([flow EXCEPT !.ignored = <<>>], kwargs, 1)), "set")

\* pyaflowa.process(cwd, event_id)
Process ==
    /\ flow.n < MaxProcessCalls
    /\ \E ev_id \in {None, Some("e9")} : Flowed(process(flow, Cwd, ev_id), "process")

\* pyaflowa.finalize_process(cwd, ds, ev_paths, config)
FinalizeProcess ==
    /\ flow.n < MaxProcessCalls
    /\ \E written, created \in BOOLEAN :
          Flowed(finalize_process(flow, written, created), "finalize_process")

\* pyaflowa.finalize()
Finalize ==
    /\ flow.n < MaxProcessCalls
    /\ Flowed(finalize(flow), "finalize")

NextProcess == Set \/ Process \/ FinalizeProcess \/ Finalize

SpecProcess == InitProcess /\ [][NextProcess]_vars

----------------------------------------------------------------------------
(* match_npts: a stream is the sequence of the sample counts of its traces *)

MaxTraces == 2

MaxNpts == 3

\* The body of the loop over st_change: lines 152-157.  np.append adds diff
\* zeros to the data of the trace; the taper keeps the number of samples
Padded(tr_npts, npts) ==
    IF Abs(tr_npts - npts) # 0 THEN tr_npts + Abs(tr_npts - npts) ELSE tr_npts

\* match_npts: lines 116-159.  force is None, "a" or "b" as a string of
\* characters; st[0] of a stream without traces raises IndexError
match_npts(st_a, st_b, force) ==
    IF force = <<>> \/ force = <<"a">>
    THEN IF st_a = <<>> THEN Raise(<<>>, "IndexError")
         ELSE Ok(<<st_a, [i \in DOMAIN st_b |-> Padded(st_b[i], st_a[1])]>>)
    ELSE IF st_b = <<>> THEN Raise(<<>>, "IndexError")
         ELSE Ok(<<[i \in DOMAIN st_a |-> Padded(st_a[i], st_b[1])], st_b>>)

\* The streams tried: up to MaxTraces traces of 1..MaxNpts samples
Streams == UNION {[1..n -> 1..MaxNpts] : n \in 0..MaxTraces}

InitStreams ==
    /\ NoCall
    /\ \E a \in Streams, b \in Streams, force \in {<<>>, <<"a">>, <<"b">>} :
          streams = [st_a |-> a, st_b |-> b, force |-> force, pc |-> "call",
                     ret |-> <<>>, exc |-> ""]
    /\ flow = None /\ asdf = None

\* st_a_out, st_b_out = match_npts(st_a, st_b, force)
MatchNpts ==
    /\ streams.pc = "call"
    /\ streams' = [streams EXCEPT
                      !.pc = "done",
                      !.ret = match_npts(streams.st_a, streams.st_b, streams.force).v,
                      !.exc = match_npts(streams.st_a, streams.st_b, streams.force).exc]
    /\ UNCHANGED <<self, fs, last, flow, asdf>>

NextStreams == MatchNpts

SpecStreams == InitStreams /\ [][NextStreams]_vars

----------------------------------------------------------------------------
(* Config: a Config is made, written to the auxiliary data of a dataset    *)
(* under its model number and read back into another Config.  Periods are  *)
(* in seconds, coordinates in ten-thousandths of a degree, the names of    *)
(* units are tuples of characters and the amplitude ratio is a rational    *)

DISP == <<"D", "I", "S", "P">>

VEL == <<"V", "E", "L">>

ACC == <<"A", "C", "C">>

\* tag.format(model_num=model): the tag is <<"synthetic", x>>, x being the
\* placeholder {model_num} or the model it was replaced with
FormatTag(tag, model) ==
    IF tag[2] = "{model_num}" THEN <<tag[1], model>> ELSE tag

\* The map corners set when none are given: lines 174-176
DefaultCorners ==
    [lat_min |-> -425007, lat_max |-> -369488, lon_min |-> 1729998, lon_max |-> 1795077]

\* Config._check_config: lines 157-217, without the pyflex and pyadjoint
\* settings.  An empty dictionary of map corners is not true at line 166
_check_config(cfg) ==
    LET acceptable_units == {DISP, VEL, ACC}
        acceptable_keys == {"synthetics", "waveforms", "responses"}
        given == cfg.map_corners # None /\ DOMAIN cfg.map_corners[1] # {}
        cornered == [cfg EXCEPT !.map_corners = IF given THEN @ ELSE Some(DefaultCorners)]
        filled == [cornered EXCEPT
                      !.cfgpaths = [k \in acceptable_keys |->
                                       IF k \in DOMAIN @ THEN @[k] ELSE <<>>],
                      !.component_list = IF cfg.rotate_to_rtz THEN <<"Z", "R", "T">>
                                         ELSE @]
    IN  IF ~(cfg.min_period < cfg.max_period) THEN Raise(cfg, "AssertionError")
        ELSE IF given /\ ~(DOMAIN cfg.map_corners[1]
                              \subseteq {"lat_min", "lat_max", "lon_min", "lon_max"})
        THEN Raise(cfg, "AssertionError")
        ELSE IF cfg.unit_output \notin acceptable_units
                \/ cfg.synthetic_unit \notin acceptable_units
        THEN Raise(cornered, "AssertionError")
        ELSE IF ~(DOMAIN cfg.cfgpaths \subseteq acceptable_keys)
        THEN Raise(cornered, "AssertionError")
        ELSE IF cfg.window_amplitude_ratio[1] > 0
                /\ ~(cfg.window_amplitude_ratio[1] < cfg.window_amplitude_ratio[2])
        THEN Raise(filled, "AssertionError")
        ELSE Ok(filled)

\* Config.__init__: lines 16-127, for a model number given as "mNN" and the
\* defaults of the arguments that are not listed.  cfgpaths is None or a
\* dictionary of lists
Config(model_number, min_period, rotate_to_rtz, unit_output, start_pad, map_corners, cfgpaths, window_amplitude_ratio) ==
    _check_config(
        [model_number |-> model_number, event_id |-> None,
         min_period |-> min_period, max_period |-> 30, filter_corners |-> 4,
         rotate_to_rtz |-> rotate_to_rtz, unit_output |-> Upper(unit_output),
         synthetic_unit |-> Upper(DISP), observed_tag |-> "observed",
         synthetic_tag |-> FormatTag(<<"synthetic", "{model_num}">>, model_number),
         pyflex_map |-> "default", adj_src_type |-> "cc_traveltime_misfit",
         map_corners |-> map_corners, synthetics_only |-> FALSE,
         window_amplitude_ratio |-> window_amplitude_ratio, zero_pad |-> 0,
         start_pad |-> start_pad, end_pad |-> 500, component_list |-> <<"Z", "N", "E">>,
         cfgpaths |-> IF cfgpaths # None /\ DOMAIN cfgpaths[1] # {}
                      THEN cfgpaths[1]
                      ELSE [k \in {"waveforms", "synthetics", "responses"} |-> <<>>]])

\* par_dict of Config.write_to_asdf: lines 318-343
par_dict(cfg, now) ==
    [creation_time |-> TimeStr(now),
     model_number |-> cfg.model_number,
     event_id |-> cfg.event_id,
     min_period |-> cfg.min_period,
     max_period |-> cfg.max_period,
     filter_corners |-> cfg.filter_corners,
     rotate_to_rtz |-> cfg.rotate_to_rtz,
     unit_output |-> cfg.unit_output,
     pyflex_map |-> cfg.pyflex_map,
     adj_src_type |-> cfg.adj_src_type,
     start_pad |-> cfg.start_pad,
     end_pad |-> cfg.end_pad,
     observed_tag |-> cfg.observed_tag,
     synthetic_tag |-> cfg.synthetic_tag,
     synthetics_only |-> cfg.synthetics_only,
     zero_pad |-> cfg.zero_pad,
     window_amplitude_ratio |-> cfg.window_amplitude_ratio,
     map_corners |-> <<cfg.map_corners[1].lat_min, cfg.map_corners[1].lat_max,
                       cfg.map_corners[1].lon_min, cfg.map_corners[1].lon_max>>,
     path_to_synthetics |-> cfg.cfgpaths["synthetics"],
     path_to_waveforms |-> cfg.cfgpaths["waveforms"],
     paths_to_responses |-> cfg.cfgpaths["responses"]]

\* Config.write_to_asdf: lines 310-347.  ds maps the path of a Configs entry
\* to its parameters; a corner that the Config lacks raises KeyError
write_to_asdf(cfg, ds, now) ==
    IF DOMAIN cfg.map_corners[1] # {"lat_min", "lat_max", "lon_min", "lon_max"}
    THEN Raise(ds, "KeyError")
    ELSE Ok(MapPut(ds, cfg.model_number, par_dict(cfg, now)))

\* The assignments of Config.read_from_asdf in their order, each with the
\* keys of cfgin it reads: lines 277-304
Assignments ==
    <<[attr |-> "model_number", keys |-> <<"model_number">>],
      [attr |-> "event_id", keys |-> <<"event_id">>],
      [attr |-> "min_period", keys |-> <<"min_period">>],
      [attr |-> "max_period", keys |-> <<"max_period">>],
      [attr |-> "filter_corners", keys |-> <<"filter_corners">>],
      [attr |-> "rotate_to_rtz", keys |-> <<"rotate_to_rtz">>],
      [attr |-> "unit_output", keys |-> <<"unit_output">>],
      [attr |-> "synthetic_unit", keys |-> <<"synthetic_unit">>],
      [attr |-> "observed_tag", keys |-> <<"observed_tag">>],
      [attr |-> "synthetic_tag", keys |-> <<"synthetic_tag">>],
      [attr |-> "pyflex_map", keys |-> <<"pyflex_map">>],
      [attr |-> "adj_src_type", keys |-> <<"adj_src_type">>],
      [attr |-> "map_corners", keys |-> <<"map_corners">>],
      [attr |-> "synthetics_only", keys |-> <<"synthetics_only">>],
      [attr |-> "window_amplitude_ratio", keys |-> <<"window_amplitude_ratio">>],
      [attr |-> "cfgpaths",
       keys |-> <<"paths_to_synthetics", "paths_to_waveforms",
                  "paths_to_responses", "paths_to_auxiliary_data">>],
      [attr |-> "zero_pad", keys |-> <<"zero_pad">>],
      [attr |-> "start_pad", keys |-> <<"start_pad">>],
      [attr |-> "end_pad", keys |-> <<"end_pad">>]>>

\* The value one assignment of read_from_asdf gives its attribute
Assigned(attr, cfgin, model) ==
    CASE attr \in {"unit_output", "synthetic_unit"} -> Upper(cfgin[attr])
      [] attr = "synthetic_tag" -> FormatTag(cfgin[attr], model)
      [] attr = "map_corners" ->
            Some([lat_min |-> cfgin[attr][1], lat_max |-> cfgin[attr][2],
                  lon_min |-> cfgin[attr][3], lon_max |-> cfgin[attr][4]])
      [] attr = "cfgpaths" ->
            [k \in {"synthetics", "waveforms", "responses", "auxiliary_data"} |->
                cfgin[CASE k = "synthetics" -> "paths_to_synthetics"
                        [] k = "waveforms" -> "paths_to_waveforms"
                        [] k = "responses" -> "paths_to_responses"
                        [] OTHER -> "paths_to_auxiliary_data"]]
      [] OTHER -> cfgin[attr]

\* The assignments from the i-th on; a key that cfgin lacks raises KeyError
\* and leaves the attributes assigned so far
RECURSIVE Assign(_, _, _, _)
Assign(cfg, cfgin, model, i) ==
    IF i > Len(Assignments)
    THEN _check_config([cfg EXCEPT !.component_list = <<"Z", "N", "E">>])
    ELSE IF \E j \in DOMAIN Assignments[i].keys :
               Assignments[i].keys[j] \notin DOMAIN cfgin
    THEN Raise(cfg, "KeyError")
    ELSE Assign([cfg EXCEPT ![Assignments[i].attr] =
                                 Assigned(Assignments[i].attr, cfgin, model)],
                cfgin, model, i + 1)

\* Config.read_from_asdf: lines 264-308
read_from_asdf(cfg, ds, model) ==
    IF model \notin DOMAIN ds THEN Raise(cfg, "KeyError")
    ELSE Assign(cfg, ds[model], model, 1)

ModelNumbers == {"m00", "m01"}

\* The map corners tried: none, an empty dictionary, the four corners, two
\* of them, and a key that is no corner
Corners ==
    {None, Some(EmptyMap),
     Some([lat_min |-> -420000, lat_max |-> -370000, lon_min |-> 1730000,
           lon_max |-> 1790000]),
     Some([lat_min |-> -420000, lat_max |-> -370000]),
     Some([lat_min |-> -420000, top |-> 0])}

\* The search paths tried: none, an empty dictionary, one key, and a key
\* that is not acceptable
SearchPaths ==
    {None, Some(EmptyMap), Some([k \in {"synthetics"} |-> <<"syn">>]),
     Some([k \in {"auxiliary_data"} |-> <<"aux">>])}

\* No Config yet, and an empty dataset
InitConfig ==
    /\ NoCall
    /\ flow = None /\ streams = None
    /\ asdf = [cfg |-> None, ds |-> EmptyMap, pc |-> "start", model |-> "",
               got |-> None, exc |-> ""]

\* The state after Config(...) left r: a constructor that raises makes no
\* Config
Configured(r) ==
    /\ asdf' = IF r.exc = "" THEN [asdf EXCEPT !.pc = "new", !.cfg = Some(r.v)]
               ELSE [asdf EXCEPT !.pc = "failed", !.exc = r.exc]
    /\ UNCHANGED <<self, fs, last, flow, streams>>

\* config = Config(model_number=..., ...)
NewConfig ==
    /\ asdf.pc = "start"
    /\ \E m \in ModelNumbers, p \in {5, 30}, r \in BOOLEAN,
          u \in {<<"d", "i", "s", "p">>, <<"V", "e", "l">>, <<"m", "/", "s">>},
          pad \in {0, 20}, c \in Corners, paths \in SearchPaths,
          ratio \in {Rat(0, 1), Rat(1, 2), Rat(1, 1), Rat(2, 1)} :
          Configured(Config(m, p, r, u, pad, c, paths, ratio))

\* config.write_to_asdf(ds)
WriteToAsdf ==
    /\ asdf.pc = "new"
    /\ \E now \in {100, 200} :
          asdf' = [asdf EXCEPT
                     !.pc = "written",
                     !.ds = write_to_asdf(asdf.cfg[1], asdf.ds, now).v,
                     !.exc = write_to_asdf(asdf.cfg[1], asdf.ds, now).exc]
    /\ UNCHANGED <<self, fs, last, flow, streams>>

\* Config(model_number="m00").read_from_asdf(ds, model)
ReadFromAsdf ==
    /\ asdf.pc = "written"
    /\ asdf.exc = ""
    /\ \E model \in ModelNumbers :
          asdf' = [asdf EXCEPT
                     !.pc = "read",
                     !.model = model,
                     !.got = Some(read_from_asdf(Config("m00", 10, FALSE, DISP, 20, None, None, Rat(0, 1)).v,
                                                 asdf.ds, model).v),
                     !.exc = read_from_asdf(Config("m00", 10, FALSE, DISP, 20, None, None, Rat(0, 1)).v,
                                            asdf.ds, model).exc]
    /\ UNCHANGED <<self, fs, last, flow, streams>>

NextConfig == NewConfig \/ WriteToAsdf \/ ReadFromAsdf

SpecConfig == InitConfig /\ [][NextConfig]_vars

----------------------------------------------------------------------------
(* Properties of exclude_events, checked under Spec *)

\* The event keys of a coordinate mapping
EventKeys(srcrcv) ==
    {srcrcv[i].k : i \in {j \in DOMAIN srcrcv : ~Contains(srcrcv[j].k, ".")}}

\* The station entries of a coordinate mapping, in its order
StationEntries(srcrcv) == SelectSeq(srcrcv, LAMBDA it : Contains(it.k, "."))

\* The event has no entry in any of the three mappings
Gone(o, e) == ~Has(o.srcrcv, e) /\ ~Has(o.misfits, e) /\ ~Has(o.windows, e)

\* The event has in o every entry it has in p, with the same records
Kept(o, p, e) ==
    /\ Has(p.srcrcv, e) => Has(o.srcrcv, e) /\ Get(o.srcrcv, e) = Get(p.srcrcv, e)
    /\ Has(p.misfits, e) => Has(o.misfits, e) /\ Get(o.misfits, e) = Get(p.misfits, e)
    /\ Has(p.windows, e) => Has(o.windows, e) /\ Get(o.windows, e) = Get(p.windows, e)

BoxGiven(c) == c.coords # None

DepthGiven(c) == c.depth_min # None \/ c.depth_max # None

MagGiven(c) == c.mag_min # None \/ c.mag_max # None

TimeGiven(c) == c.starttime # None \/ c.endtime # None

NumGiven(c) ==
    (IF BoxGiven(c) THEN 1 ELSE 0) + (IF DepthGiven(c) THEN 1 ELSE 0)
    + (IF MagGiven(c) THEN 1 ELSE 0) + (IF TimeGiven(c) THEN 1 ELSE 0)

FailsBox(ev, c) ==
    /\ BoxGiven(c)
    /\ \/ ev.lat < c.coords[1]
       \/ ev.lat > c.coords[2]
       \/ ev.lon < c.coords[3]
       \/ ev.lon > c.coords[4]

FailsDepth(ev, c) ==
    \/ c.depth_min # None /\ ev.depth_m < c.depth_min[1] * 1000
    \/ c.depth_max # None /\ ev.depth_m > c.depth_max[1] * 1000

FailsMag(ev, c) ==
    \/ c.mag_min # None /\ ev.mag < c.mag_min[1]
    \/ c.mag_max # None /\ ev.mag > c.mag_max[1]

FailsTime(ev, c) ==
    \/ c.starttime # None /\ UTCDateTime(ev.time) < c.starttime[1]
    \/ c.endtime # None /\ UTCDateTime(ev.time) > c.endtime[1]

FailsAny(ev, c) ==
    FailsBox(ev, c) \/ FailsDepth(ev, c) \/ FailsMag(ev, c) \/ FailsTime(ev, c)

\* C1: when exclude_events is given more than one criterion and returns,
\* every event that fails at least one of the criteria given is removed from
\* srcrcv, misfits and windows, also when it passes the criteria that come
\* before the one it fails.
C1_AnyFailedCriterionExcludes ==
    (last.op = "exclude_events" /\ last.exc = "" /\ NumGiven(last.arg) > 1)
    => \A e \in EventKeys(last.pre.srcrcv) :
          FailsAny(Get(last.pre.srcrcv, e), last.arg) => Gone(self, e)

\* C2: exclude_events with only a magnitude range and no bounding box
\* completes normally; it removes exactly the events whose magnitude is
\* outside the range, with their misfit and window records, and keeps every
\* other event in srcrcv, misfits and windows.
C2_MagnitudeRangeAlone ==
    (/\ last.op = "exclude_events"
     /\ MagGiven(last.arg)
     /\ ~BoxGiven(last.arg) /\ ~DepthGiven(last.arg) /\ ~TimeGiven(last.arg)
     /\ EventKeys(last.pre.srcrcv) # {})
    => /\ last.exc = ""
       /\ \A e \in EventKeys(last.pre.srcrcv) :
             IF FailsMag(Get(last.pre.srcrcv, e), last.arg)
             THEN Gone(self, e) ELSE Kept(self, last.pre, e)

\* C3: after exclude_events returns or raises, each event selected for
\* exclusion is either removed from all of srcrcv, misfits and windows or
\* still present in every one of them it was in before the call.
C3_ExclusionAtomic ==
    last.op = "exclude_events"
    => \A i \in DOMAIN last.ret :
          \/ Gone(self, last.ret[i])
          \/ /\ Has(last.pre.srcrcv, last.ret[i]) => Has(self.srcrcv, last.ret[i])
             /\ Has(last.pre.misfits, last.ret[i]) => Has(self.misfits, last.ret[i])
             /\ Has(last.pre.windows, last.ret[i]) => Has(self.windows, last.ret[i])

\* C4: exclude_events never adds, removes or modifies a station entry: the
\* station keys of srcrcv and their coordinate records are the same before
\* and after the call, whatever the criteria and however the call ends.
C4_StationsUntouched ==
    last.op = "exclude_events"
    => StationEntries(self.srcrcv) = StationEntries(last.pre.srcrcv)

\* An exclusion that returned and removed an event linked to stations
C4_Witness ==
    /\ last.op = "exclude_events"
    /\ last.exc = ""
    /\ \E i \in DOMAIN last.ret :
          /\ Gone(self, last.ret[i])
          /\ DOMAIN Get(last.pre.srcrcv, last.ret[i]).rcv # {}
    /\ StationEntries(self.srcrcv) # <<>>

----------------------------------------------------------------------------
(* Properties of save and load, checked under SpecPersist *)

\* The three mappings of o and p have the same keys and the same values
SameIndex(o, p) ==
    /\ AsMap(o.srcrcv) = AsMap(p.srcrcv)
    /\ AsMap(o.misfits) = AsMap(p.misfits)
    /\ AsMap(o.windows) = AsMap(p.windows)

\* C5: for a non-empty Index, save(tag) followed by load(tag) succeeds and
\* yields srcrcv, misfits and windows with the same keys and values as the
\* Index saved.
C5_SaveLoadRoundTrip ==
    (/\ last.op = "load"
     /\ last.saved # None
     /\ last.arg = [tag |-> last.saved[1].tag, path |-> last.saved[1].path]
     /\ last.saved[1].o.srcrcv # <<>>)
    => /\ last.exc = ""
       /\ last.ret = 1
       /\ SameIndex(self, last.saved[1].o)

RecordNames ==
    {<<"s", "r", "c", "r", "c", "v">>, <<"m", "i", "s", "f", "i", "t", "s">>,
     <<"w", "i", "n", "d", "o", "w", "s">>}

DerivedFields ==
    {"utm", "stations", "events", "str", "models", "steps", "iterations"}

\* C6: every file written by save has exactly the three top-level keys
\* srcrcv, misfits and windows, and load assigns only those three
\* attributes: the derived metadata and the utm zone are as before the load.
C6_SnapshotIsThreeMappings ==
    /\ \A i \in DOMAIN fs :
          /\ Len(fs[i].v) = 3
          /\ {fs[i].v[j].k : j \in DOMAIN fs[i].v} = RecordNames
    /\ last.op = "load" => \A f \in DerivedFields : self[f] = last.pre[f]

\* A load that replaced the mappings of an Inspector whose metadata had been
\* derived from other mappings
C6_Witness ==
    /\ last.op = "load"
    /\ last.ret = 1
    /\ self.srcrcv # last.pre.srcrcv
    /\ self.events # None
    /\ {self.events[1][i] : i \in DOMAIN self.events[1]} # EventKeys(self.srcrcv)

----------------------------------------------------------------------------
(* Properties of the misfit scaling, checked under SpecMisfits *)

\* The sum of the misfit_value of the adjoint sources of a station
RECURSIVE RawSum(_, _, _)
RawSum(items, sta, i) ==
    IF i > Len(items) THEN 0
    ELSE (IF items[i].station_id = sta THEN items[i].misfit_value ELSE 0)
         + RawSum(items, sta, i + 1)

Contributors(items) == {items[i].station_id : i \in DOMAIN items}

\* The (model, step) records of a dataset's adjoint sources
StepsOf(ds) ==
    UNION {{[model |-> ds.AdjointSources[g].name, st |-> ds.AdjointSources[g].steps[j]] :
               j \in DOMAIN ds.AdjointSources[g].steps} :
              g \in DOMAIN ds.AdjointSources}

\* C7: after an append that ingested the source, the msft stored for every
\* (event, model, step, station) is the sum of the raw misfit values of the
\* station in that model and step divided by 2 * nwin of the station, however
\* many contributions the station has and however they are interleaved.
C7_MisfitScaledOnce ==
    (last.op = "append" /\ last.exc = "" /\ last.ret.status = 1)
    => /\ Has(self.misfits, event_id(last.arg.ds))
       /\ \A p \in StepsOf(last.arg.ds) :
             /\ p.model \in DOMAIN Get(self.misfits, event_id(last.arg.ds))
             /\ p.st.name \in DOMAIN Get(self.misfits, event_id(last.arg.ds))[p.model]
             /\ DOMAIN Get(self.misfits, event_id(last.arg.ds))[p.model][p.st.name]
                    = Contributors(p.st.items)
             /\ \A sta \in Contributors(p.st.items) :
                   /\ Get(self.misfits, event_id(last.arg.ds))[p.model][p.st.name][sta].nwin
                          = p.st.num_win[sta]
                   /\ Get(self.misfits, event_id(last.arg.ds))[p.model][p.st.name][sta].msft[1]
                          * (2 * p.st.num_win[sta])
                      = RawSum(p.st.items, sta, 1)
                          * Get(self.misfits, event_id(last.arg.ds))[p.model][p.st.name][sta].msft[2]

\* The contributions 2.0 and 3.0 of station NZ.A, with one of NZ.B between
\* them, and a window count of 5: the scaled misfit is 1/2
C7_Witness ==
    /\ last.op = "append"
    /\ last.exc = ""
    /\ last.ret.status = 1
    /\ \E b \in {2, 3} :
          last.arg.ds.AdjointSources[1].steps[1].items
              = <<Adj(StaA, 2), Adj(StaB, b), Adj(StaA, 3)>>
    /\ last.arg.ds.AdjointSources[1].steps[1].num_win[StaA] = 5
    /\ Get(self.misfits, E1)["m00"]["s00"][StaA].msft = <<1, 2>>

\* C9: when a station has raw misfit contributions and a window count of
\* zero, ingestion reports a failure and the Index holds no misfit value for
\* that station afterwards.
C9_ZeroCountGuard ==
    last.op = "append"
    => \A p \in StepsOf(last.arg.ds) : \A sta \in Contributors(p.st.items) :
          (sta \in DOMAIN p.st.num_win /\ p.st.num_win[sta] = 0)
          => /\ last.exc # "" \/ last.ret.status = 0
             /\ ~(/\ Has(self.misfits, event_id(last.arg.ds))
                  /\ p.model \in DOMAIN Get(self.misfits, event_id(last.arg.ds))
                  /\ p.st.name \in DOMAIN Get(self.misfits, event_id(last.arg.ds))[p.model]
                  /\ sta \in DOMAIN Get(self.misfits, event_id(last.arg.ds))[p.model][p.st.name])

----------------------------------------------------------------------------
(* Properties of sum_misfits and of directory ingestion, checked under Spec *)

\* The (model, step) pairs under which some event holds misfit records
PairsOf(misfits) ==
    UNION {UNION {{<<m, s>> : s \in DOMAIN misfits[i].v[m]} :
                     m \in DOMAIN misfits[i].v} :
              i \in DOMAIN misfits}

\* The events that hold misfit records at (m, s), in the order of misfits
Contributing(misfits, m, s) ==
    SelectSeq(misfits, LAMBDA it : m \in DOMAIN it.v /\ s \in DOMAIN it.v[m])

\* The sum over these events of the sum of their stations' scaled misfits
RECURSIVE SumOfEvents(_, _, _, _)
SumOfEvents(evs, m, s, i) ==
    IF i > Len(evs) THEN Rat(0, 1)
    ELSE RAdd(SumMsft(evs[i].v[m][s], DOMAIN evs[i].v[m][s]),
              SumOfEvents(evs, m, s, i + 1))

\* C8: when sum_misfits returns, it holds for every (model, step) of the
\* Index the sum over the contributing events of the sum of their stations'
\* scaled misfits, divided by the number of contributing events.
C8_AggregateMisfit ==
    (last.op = "sum_misfits" /\ last.exc = "")
    => \A p \in PairsOf(self.misfits) :
          /\ p[1] \in DOMAIN last.ret
          /\ p[2] \in DOMAIN last.ret[p[1]]
          /\ last.ret[p[1]][p[2]][1]
                 * SumOfEvents(Contributing(self.misfits, p[1], p[2]), p[1], p[2], 1)[2]
                 * Len(Contributing(self.misfits, p[1], p[2]))
             = SumOfEvents(Contributing(self.misfits, p[1], p[2]), p[1], p[2], 1)[1]
                 * last.ret[p[1]][p[2]][2]

\* An adjoint source of the dataset names a station without a window count
LacksCount(ds) ==
    \E p \in StepsOf(ds) : \E sta \in Contributors(p.st.items) :
        sta \notin DOMAIN p.st.num_win

\* append fails for the source: its file is already open, or a record it
\* reads is missing
SkippedSource(ds, f) == ds.locked \/ (f[3] /\ LacksCount(ds))

\* append raises for the source: a station of the dataset has a window count
\* of zero, and the division of its misfit by the count is a precondition
\* violation that no except clause of append names
ZeroCount(ds, f) ==
    /\ f[3]
    /\ ~ds.locked
    /\ \E p \in StepsOf(ds) : \E sta \in Contributors(p.st.items) :
          sta \in DOMAIN p.st.num_win /\ p.st.num_win[sta] = 0

\* C10: during directory ingestion, append of a source that is unreadable
\* or lacks an expected record returns the failure flag without raising, and
\* append is still called for every later source of the directory: each
\* source the loop reached has a status, 0 exactly for the skipped ones and 1
\* for the others, and the loop ends before the last source only at a source
\* whose own append raises, never at or because of a skipped one.
C10_SkippedSourcesDoNotStop ==
    last.op = "__init__"
    => /\ \A i \in DOMAIN last.arg.path :
             (Len(last.ret) >= i - 1 /\ SkippedSource(last.arg.path[i], last.arg.flags))
             => /\ Len(last.ret) >= i
                /\ last.ret[i] = 0
       /\ \A i \in DOMAIN last.ret :
             last.ret[i] = (IF SkippedSource(last.arg.path[i], last.arg.flags)
                            THEN 0 ELSE 1)
       /\ Len(last.ret) <= Len(last.arg.path)
       /\ Len(last.ret) < Len(last.arg.path)
          => /\ ZeroCount(last.arg.path[Len(last.ret) + 1], last.arg.flags)
             /\ ~SkippedSource(last.arg.path[Len(last.ret) + 1], last.arg.flags)
             /\ last.exc = "ZeroDivisionError"

\* The constructor read three sources with misfits: the first was unreadable,
\* the second lacked a window count, and the third was appended after both
C10_Witness ==
    /\ last.op = "__init__"
    /\ last.arg.flags[3]
    /\ Len(last.arg.path) = 3
    /\ last.arg.path[1].locked
    /\ ~last.arg.path[2].locked
    /\ LacksCount(last.arg.path[2])
    /\ ~SkippedSource(last.arg.path[3], last.arg.flags)
    /\ last.ret = <<0, 0, 1>>
    /\ last.exc = ""

----------------------------------------------------------------------------
(* Properties of the derived metadata, checked under Spec *)

\* The keys of a coordinate mapping that are events, in its order
EventList(srcrcv) == SelectSeq(KeyList(srcrcv), LAMBDA k : ~Contains(k, "."))

\* The keys of a coordinate mapping that are stations, in its order
StationList(srcrcv) == SelectSeq(KeyList(srcrcv), LAMBDA k : Contains(k, "."))

\* C11: after an append that ingested its source, whether the Inspector was
\* new or already constructed, the derived lists of events and stations are
\* those of the current coordinate mapping, the metadata of models and
\* steps is present, and the summary counts are the lengths of these lists.
C11_AppendRefreshesMetadata ==
    (last.op = "append" /\ last.exc = "" /\ last.ret.status = 1)
    => /\ self.events = Some(EventList(self.srcrcv))
       /\ self.stations = Some(StationList(self.srcrcv))
       /\ self.models # None
       /\ self.steps # None
       /\ self.str # None
       /\ self.str[1].events = Len(EventList(self.srcrcv))
       /\ self.str[1].stations = Len(StationList(self.srcrcv))

\* The str has the separator of station codes
Dotted(k) == \E i \in DOMAIN k : k[i] = "."

\* The metadata of self was derived by the last call: _get_info was called,
\* or the constructor or exclude_events reached its call of _get_info
Derived ==
    \/ last.op = "_get_info"
    \/ last.op = "__init__" /\ last.exc = "" /\ last.ret # <<>>
          /\ last.ret[Len(last.ret)] # 0
    \/ last.op = "exclude_events" /\ last.exc = ""

\* C12: once the metadata is derived, after any appends, the list of events
\* and the list of stations are disjoint, together they hold every key of
\* srcrcv, no event has a "." and every station has one.
C12_AxisPartition ==
    Derived
    => /\ self.events # None /\ self.stations # None
       /\ \A i \in DOMAIN self.events[1] : \A j \in DOMAIN self.stations[1] :
             self.events[1][i] # self.stations[1][j]
       /\ {self.events[1][i] : i \in DOMAIN self.events[1]}
             \cup {self.stations[1][j] : j \in DOMAIN self.stations[1]}
          = {self.srcrcv[i].k : i \in DOMAIN self.srcrcv}
       /\ \A i \in DOMAIN self.events[1] : ~Dotted(self.events[1][i])
       /\ \A j \in DOMAIN self.stations[1] : Dotted(self.stations[1][j])

\* _get_info, called after an append on a new Inspector, found events and
\* stations
C12_Witness ==
    /\ last.op = "_get_info"
    /\ last.exc = ""
    /\ last.pre.events = None
    /\ Len(self.events[1]) >= 1
    /\ Len(self.stations[1]) >= 2

\* C13: once the metadata is derived, models is the set of the models some
\* event of misfits holds, steps[m] is the set of the steps some event holds
\* for m, and iterations is the number of (model, step) pairs, also when
\* the events differ in their models or steps.
C13_MetadataCoversAllEvents ==
    (Derived /\ last.exc = "")
    => /\ Elems(self.models[1])
          = {p[1] : p \in PairsOf(self.misfits)}
               \cup UNION {DOMAIN self.misfits[i].v : i \in DOMAIN self.misfits}
       /\ \A m \in Elems(self.models[1]) :
             Elems(self.steps[1][m])
             = {p[2] : p \in {q \in PairsOf(self.misfits) : q[1] = m}}
       /\ self.iterations = Cardinality(PairsOf(self.misfits))

----------------------------------------------------------------------------
(* Properties of the reductions, checked under Spec *)

\* The mapping sort_by_model was called for
Chosen(o, choice) == IF choice = "misfits" THEN o.misfits ELSE o.windows

\* The records the events of d hold at (m, s), in the order of d
RecordsAt(d, m, s) ==
    [i \in DOMAIN Contributing(d, m, s) |->
        [k |-> Contributing(d, m, s)[i].k, v |-> Contributing(d, m, s)[i].v[m][s],
         ord |-> Get(Get(Contributing(d, m, s)[i].ord, m), s)]]

\* C14: for an Index whose metadata is derived, sort_by_model of misfits or
\* of windows does not raise and its view of every model m and step s of the
\* metadata holds exactly the events with a record at (m, s), each with that
\* record; an event without the model, or with the model but without the
\* step, is left out of the view.
C14_ReslicingToleratesPartialData ==
    (/\ last.op = "sort_by_model"
     /\ last.arg \in {"misfits", "windows"}
     /\ self.models # None
     /\ self.steps # None)
    => /\ last.exc = ""
       /\ \A m \in Elems(self.models[1]) : \A s \in Elems(self.steps[1][m]) :
             last.ret[m][s] = RecordsAt(Chosen(self, last.arg), m, s)

\* The events that hold a misfit record of station sta at (m, s)
StationEvents(misfits, m, s, sta) ==
    SelectSeq(Contributing(misfits, m, s), LAMBDA it : sta \in DOMAIN it.v[m][s])

\* The stations with a misfit record at (m, s)
StationsAt(misfits, m, s) ==
    UNION {DOMAIN Contributing(misfits, m, s)[i].v[m][s] :
              i \in DOMAIN Contributing(misfits, m, s)}

\* The sum of the scaled misfits of station sta over these events
RECURSIVE SumStationMsft(_, _, _, _, _)
SumStationMsft(evs, m, s, sta, i) ==
    IF i > Len(evs) THEN Rat(0, 1)
    ELSE RAdd(evs[i].v[m][s][sta].msft, SumStationMsft(evs, m, s, sta, i + 1))

\* The sum of the window counts of station sta over these events
RECURSIVE SumStationNwin(_, _, _, _, _)
SumStationNwin(evs, m, s, sta, i) ==
    IF i > Len(evs) THEN 0
    ELSE evs[i].v[m][s][sta].nwin + SumStationNwin(evs, m, s, sta, i + 1)

\* C15: sort_misfits_by_station returns, for every model, step and station
\* with a misfit record, nevents = the number of events holding a record of
\* the station at that (model, step), nwin = the sum of their window counts
\* and msft = the sum of their scaled misfits divided by nevents.
C15_StationReindex ==
    last.op = "sort_misfits_by_station"
    => /\ last.exc = ""
       /\ \A p \in PairsOf(self.misfits) :
             /\ p[1] \in DOMAIN last.ret
             /\ p[2] \in DOMAIN last.ret[p[1]]
             /\ \A sta \in StationsAt(self.misfits, p[1], p[2]) :
                   /\ sta \in DOMAIN last.ret[p[1]][p[2]]
                   /\ last.ret[p[1]][p[2]][sta].nevents
                      = Len(StationEvents(self.misfits, p[1], p[2], sta))
                   /\ last.ret[p[1]][p[2]][sta].nwin
                      = SumStationNwin(StationEvents(self.misfits, p[1], p[2], sta),
                                       p[1], p[2], sta, 1)
                   /\ last.ret[p[1]][p[2]][sta].msft
                      = RDivInt(SumStationMsft(StationEvents(self.misfits, p[1], p[2], sta),
                                               p[1], p[2], sta, 1),
                                Len(StationEvents(self.misfits, p[1], p[2], sta)))

\* The window values of kind choice held at (m, s): one (event, station,
\* channel, position) for each
WindowSlots(windows, m, s, choice) ==
    UNION {UNION {UNION {{<<windows[i].k, sta, cha, j>> :
                             j \in DOMAIN windows[i].v[m][s][sta][cha][choice]} :
                            cha \in DOMAIN windows[i].v[m][s][sta]} :
                     sta \in DOMAIN windows[i].v[m][s]} :
              i \in {l \in DOMAIN windows : /\ m \in DOMAIN windows[l].v
                                            /\ s \in DOMAIN windows[l].v[m]}}

\* The value of a slot
SlotValue(windows, m, s, choice, slot) ==
    Get(windows, slot[1])[m][s][slot[2]][slot[3]][choice][slot[4]]

\* The result of sort_by_window is the co-sort of the window values held at
\* (model, step): values and info have the same length, one entry for each
\* value; values is ascending; and every pair (values[i], info[i]) occurs as
\* often as the value occurs in the windows of the (event, station, channel)
\* info[i]
CoSorted(ret, windows, m, s, choice) ==
    /\ Len(ret.values) = Len(ret.info)
    /\ Len(ret.values) = Cardinality(WindowSlots(windows, m, s, choice))
    /\ \A i, j \in DOMAIN ret.values : i < j => ret.values[i] <= ret.values[j]
    /\ \A i \in DOMAIN ret.values :
          Cardinality({j \in DOMAIN ret.values :
                          ret.values[j] = ret.values[i] /\ ret.info[j] = ret.info[i]})
          = Cardinality({slot \in WindowSlots(windows, m, s, choice) :
                            /\ <<slot[1], slot[2], slot[3]>> = ret.info[i]
                            /\ SlotValue(windows, m, s, choice, slot) = ret.values[i]})

\* The call named a model and a step of the derived metadata
KnownView(o, arg) ==
    /\ o.models # None
    /\ o.steps # None
    /\ arg.model \in Elems(o.models[1])
    /\ arg.step \in Elems(o.steps[1][arg.model])

\* C16: for a model and a step of the metadata and a kind of measurement,
\* sort_by_window returns two sequences of one length, with one entry for
\* each window value of the view, values ascending and every identity tuple
\* (event, station, channel) still attached to its own value.
C16_CoSort ==
    (/\ last.op = "sort_by_window"
     /\ last.arg.choice \in Choices
     /\ KnownView(self, last.arg))
    => /\ last.exc = ""
       /\ CoSorted(last.ret, self.windows, last.arg.model, last.arg.step,
                   last.arg.choice)

\* The events with windows at (m, s) that the event filter lets through
StatEvents(windows, arg) ==
    {windows[i].k : i \in {l \in DOMAIN windows :
                              /\ arg.model \in DOMAIN windows[l].v
                              /\ arg.step \in DOMAIN windows[l].v[arg.model]
                              /\ Wanted(arg.eventid, windows[l].k)}}

\* The window values of the event at the stations the station filter lets
\* through
StatSlots(windows, arg, event) ==
    {slot \in WindowSlots(windows, arg.model, arg.step, arg.choice) :
        slot[1] = event /\ Wanted(arg.sta_code, slot[2])}

\* v is a list, not a number
IsList(v) == v \in Seq(Int)

\* v is the reduction of the values of the slots: their maximum or minimum,
\* as the caller chose
ReductionOf(v, windows, arg, slots) ==
    /\ \E slot \in slots : SlotValue(windows, arg.model, arg.step, arg.choice, slot) = v
    /\ \A slot \in slots :
          IF arg.print_choice = "max"
          THEN SlotValue(windows, arg.model, arg.step, arg.choice, slot) <= v
          ELSE v <= SlotValue(windows, arg.model, arg.step, arg.choice, slot)

\* C17: for a model and a step of the metadata and a kind of window value,
\* event_stats returns three parallel sequences, with one entry for each
\* event of the view that the event filter lets through, in ascending order
\* of count; the count of an event is the number of its window values of the
\* chosen kind at the stations the station filter lets through, and the third
\* entry of the event is the reduction of these values the caller supplied.
C17_EventStatsReduced ==
    (/\ last.op = "event_stats"
     /\ last.arg.choice \in Choices
     /\ KnownView(self, last.arg))
    => /\ last.exc = ""
       /\ Len(last.ret.events) = Len(last.ret.nwins)
       /\ Len(last.ret.events) = Len(last.ret.msftval)
       /\ Len(last.ret.events) = Cardinality(StatEvents(self.windows, last.arg))
       /\ {last.ret.events[i] : i \in DOMAIN last.ret.events}
          = StatEvents(self.windows, last.arg)
       /\ \A i, j \in DOMAIN last.ret.nwins :
             i < j => last.ret.nwins[i] <= last.ret.nwins[j]
       /\ \A i \in DOMAIN last.ret.events :
             /\ last.ret.nwins[i]
                = Cardinality(StatSlots(self.windows, last.arg, last.ret.events[i]))
             /\ ~IsList(last.ret.msftval[i])
             /\ ReductionOf(last.ret.msftval[i], self.windows, last.arg,
                            StatSlots(self.windows, last.arg, last.ret.events[i]))

\* The sum of the values of a set of slots
RECURSIVE SumSlots(_, _, _, _, _)
SumSlots(windows, m, s, choice, slots) ==
    IF slots = {} THEN 0
    ELSE LET slot == CHOOSE x \in slots : TRUE
         IN  SlotValue(windows, m, s, choice, slot)
             + SumSlots(windows, m, s, choice, slots \ {slot})

\* The measurement of (m, s): the number of its windows or the sum of their
\* lengths
MeasurementAt(windows, m, s, choice) ==
    IF choice = "num_windows" THEN Cardinality(WindowSlots(windows, m, s, "dlna"))
    ELSE SumSlots(windows, m, s, "length_s", WindowSlots(windows, m, s, "length_s"))

\* C18: for an Index whose metadata is derived, measurements returns, for
\* every (model, step) under which some event holds windows, the number of
\* windows over all events, stations and channels ("num_windows") or the sum
\* of their lengths ("cum_win_len").
C18_CumulativeMeasurements ==
    (/\ last.op = "measurements"
     /\ last.arg \in {"cum_win_len", "num_windows"}
     /\ last.pre.events # None
     /\ last.pre.stations # None
     /\ last.pre.models # None)
    => /\ last.exc = ""
       /\ \A p \in PairsOf(self.windows) :
             /\ p[1] \in DOMAIN last.ret
             /\ p[2] \in DOMAIN last.ret[p[1]]
             /\ last.ret[p[1]][p[2]] = MeasurementAt(self.windows, p[1], p[2], last.arg)

\* The empty result of a reduction over the windows
EmptyResult(op, ret) ==
    CASE op = "sort_by_window" -> ret.values = <<>> /\ ret.info = <<>>
      [] op = "window_values" -> ret = <<>>
      [] op = "event_stats" ->
            /\ Len(ret.events) = Len(ret.nwins)
            /\ Len(ret.events) = Len(ret.msftval)
            /\ \A i \in DOMAIN ret.events : ret.nwins[i] = 0 /\ ret.msftval[i] = <<>>

\* C19: when the view of a model and a step of the metadata holds no window
\* value of the chosen kind, because it has no event or because its events
\* have no window, sort_by_window, event_stats and window_values return
\* empty sequences and do not raise.
C19_EmptyQueriesReturnEmpty ==
    (/\ last.op \in {"sort_by_window", "event_stats", "window_values"}
     /\ last.arg.choice \in Choices
     /\ KnownView(self, last.arg)
     /\ WindowSlots(self.windows, last.arg.model, last.arg.step, last.arg.choice) = {})
    => /\ last.exc = ""
       /\ EmptyResult(last.op, last.ret)

\* The reductions
Reductions ==
    {"event_stats", "window_values", "misfit_values", "sort_by_model",
     "sort_by_window", "sort_misfits_by_station", "measurements", "sum_misfits",
     "event_info"}

\* C20: a reduction leaves the three mappings and the derived lists of
\* events, stations, models and steps as they were, whether it returns or
\* raises.
C20_ReductionsReadOnly ==
    last.op \in Reductions
    => /\ self.srcrcv = last.pre.srcrcv
       /\ self.misfits = last.pre.misfits
       /\ self.windows = last.pre.windows
       /\ self.events = last.pre.events
       /\ self.stations = last.pre.stations
       /\ self.models = last.pre.models
       /\ self.steps = last.pre.steps

\* measurements, which rebuilds the summary, returned the window count of a
\* (model, step) with windows
C20_Witness ==
    /\ last.op = "measurements"
    /\ last.exc = ""
    /\ last.arg = "num_windows"
    /\ self.windows # <<>>
    /\ self.str # None
    /\ \E m \in DOMAIN last.ret : \E s \in DOMAIN last.ret[m] : last.ret[m][s] > 0

----------------------------------------------------------------------------
(* Properties of the window records, checked under SpecWindows *)

\* The records of the windows mapping: (event, model, step, station,
\* channel) with the record
WindowRecords(windows) ==
    UNION {UNION {UNION {UNION {
        {[event |-> windows[i].k, model |-> m, step |-> s, sta |-> sta, cha |-> cha,
          rec |-> windows[i].v[m][s][sta][cha]] :
             cha \in DOMAIN windows[i].v[m][s][sta]} :
            sta \in DOMAIN windows[i].v[m][s]} :
           s \in DOMAIN windows[i].v[m]} :
          m \in DOMAIN windows[i].v} :
         i \in DOMAIN windows}

\* The windows of the dataset at (model, step) whose channel id names the
\* station and the channel, the location being empty
WindowsOfChannel(ds, model, step, sta, cha) ==
    UNION {UNION {{<<g, j, l>> :
                      l \in {x \in DOMAIN ds.MisfitWindows[g].steps[j].items :
                                ds.MisfitWindows[g].steps[j].items[x].channel_id
                                = sta \o <<".", ".">> \o cha}} :
                     j \in {y \in DOMAIN ds.MisfitWindows[g].steps :
                               ds.MisfitWindows[g].steps[y].name = step}} :
              g \in {z \in DOMAIN ds.MisfitWindows : ds.MisfitWindows[z].name = model}}

\* C21: after any appends every window record holds seven sequences of one
\* length, length_s[i] = rel_end[i] - rel_start[i] for every i, and after an
\* append that ingested its source the length of every record of its event
\* is the number of windows the source holds for that channel.
C21_WindowRecordsParallel ==
    /\ \A w \in WindowRecords(self.windows) :
          /\ DOMAIN w.rec = {"cc_shift_sec", "dlna", "weight", "max_cc", "length_s",
                             "rel_start", "rel_end"}
          /\ \A f \in DOMAIN w.rec : Len(w.rec[f]) = Len(w.rec.dlna)
          /\ \A i \in DOMAIN w.rec.length_s :
                w.rec.length_s[i] = w.rec.rel_end[i] - w.rec.rel_start[i]
    /\ (last.op = "append" /\ last.exc = "" /\ last.ret.status = 1)
       => \A w \in WindowRecords(self.windows) :
             w.event = event_id(last.arg.ds)
             => Len(w.rec.dlna)
                = Cardinality(WindowsOfChannel(last.arg.ds, w.model, w.step, w.sta, w.cha))

\* An append ingested a source with two windows of one channel and one of
\* another, their starts and ends differing
C21_Witness ==
    /\ last.op = "append"
    /\ last.exc = ""
    /\ last.ret.status = 1
    /\ \E w, x \in WindowRecords(self.windows) :
          /\ w.event = x.event /\ w.step = x.step /\ w.model = x.model
          /\ Len(w.rec.length_s) = 2
          /\ w.rec.length_s[1] # w.rec.length_s[2]
          /\ <<x.sta, x.cha>> # <<w.sta, w.cha>>
          /\ Len(x.rec.length_s) = 1

----------------------------------------------------------------------------
(* Properties of the station records, checked under SpecWindows *)

\* The coordinates the source lists first for the station
FirstCoord(ds, sta) ==
    ds.coords[CHOOSE i \in DOMAIN ds.coords :
                 /\ ds.coords[i].sta = sta
                 /\ \A j \in 1..(i - 1) : ds.coords[j].sta # sta]

\* C22: an append leaves the record of every station the Index already
\* holds as it was, also when its source lists the station with other
\* coordinates; the record of a new station is the one of the source; the
\* records of the other events are unchanged, and the event of the source
\* is linked to every station the source lists.
C22_StationRecordsCreatedOnce ==
    last.op = "append"
    => /\ \A i \in DOMAIN last.pre.srcrcv :
             last.pre.srcrcv[i].k # event_id(last.arg.ds)
             => /\ Has(self.srcrcv, last.pre.srcrcv[i].k)
                /\ Get(self.srcrcv, last.pre.srcrcv[i].k) = last.pre.srcrcv[i].v
       /\ \A i \in DOMAIN self.srcrcv :
             (Dotted(self.srcrcv[i].k) /\ ~Has(last.pre.srcrcv, self.srcrcv[i].k))
             => /\ \E j \in DOMAIN last.arg.ds.coords :
                      last.arg.ds.coords[j].sta = self.srcrcv[i].k
                /\ self.srcrcv[i].v
                   = StationRecord(FirstCoord(last.arg.ds, self.srcrcv[i].k), self.utm)
       /\ (last.exc = "" /\ last.ret.status = 1)
          => /\ Has(self.srcrcv, event_id(last.arg.ds))
             /\ DOMAIN Get(self.srcrcv, event_id(last.arg.ds)).rcv
                = {last.arg.ds.coords[j].sta : j \in DOMAIN last.arg.ds.coords}

\* An append ingested a source that lists, with other coordinates, a station
\* the Index already held
C22_Witness ==
    /\ last.op = "append"
    /\ last.exc = ""
    /\ last.ret.status = 1
    /\ \E j \in DOMAIN last.arg.ds.coords :
          /\ Has(last.pre.srcrcv, last.arg.ds.coords[j].sta)
          /\ Get(last.pre.srcrcv, last.arg.ds.coords[j].sta).lat
             # last.arg.ds.coords[j].latitude
          /\ last.arg.ds.coords[j].sta
             \in DOMAIN Get(self.srcrcv, event_id(last.arg.ds)).rcv

----------------------------------------------------------------------------
(* Properties of misfit_values, checked under Spec *)

\* The (event, station) misfit records held at (m, s)
MisfitRecords(misfits, m, s) ==
    UNION {{<<misfits[i].k, sta>> : sta \in DOMAIN misfits[i].v[m][s]} :
              i \in {l \in DOMAIN misfits : /\ m \in DOMAIN misfits[l].v
                                            /\ s \in DOMAIN misfits[l].v[m]}}

\* C23: misfit_values(model, step) returns and its list has one scaled
\* misfit for every (event, station) misfit record held at that model and
\* step: its length is the number of these records and every value occurs
\* as often as records hold it.
C23_MisfitValuesComplete ==
    last.op = "misfit_values"
    => /\ last.exc = ""
       /\ Len(last.ret)
          = Cardinality(MisfitRecords(self.misfits, last.arg.model, last.arg.step))
       /\ \A i \in DOMAIN last.ret :
             Cardinality({j \in DOMAIN last.ret : last.ret[j] = last.ret[i]})
             = Cardinality({r \in MisfitRecords(self.misfits, last.arg.model,
                                                last.arg.step) :
                               Get(self.misfits, r[1])[last.arg.model][last.arg.step][r[2]].msft
                               = last.ret[i]})


\* C24: when exclude_events is given a time range, no depth or magnitude
\* range and a bounding box that holds every event, and returns, it removes
\* exactly the events whose origin time is earlier than starttime or later
\* than endtime, and keeps every event whose origin time lies between them.
C24_TimeRangeExclusion ==
    (/\ last.op = "exclude_events" /\ last.exc = ""
     /\ TimeGiven(last.arg) /\ ~DepthGiven(last.arg) /\ ~MagGiven(last.arg)
     /\ \A e \in EventKeys(last.pre.srcrcv) :
           ~FailsBox(Get(last.pre.srcrcv, e), last.arg))
    => \A e \in EventKeys(last.pre.srcrcv) :
          IF FailsTime(Get(last.pre.srcrcv, e), last.arg)
          THEN Gone(self, e) ELSE Kept(self, last.pre, e)


\* C25: when append returns the failure flag for a source, srcrcv, misfits
\* and windows are the same as before the call: no record of the failing
\* event remains.
C25_SkippedSourceLeavesNoTrace ==
    (last.op = "append" /\ last.exc = "" /\ last.ret.status = 0)
    => /\ self.srcrcv = last.pre.srcrcv
       /\ self.misfits = last.pre.misfits
       /\ self.windows = last.pre.windows

\* C26: after the constructor has ingested a directory, if append returned
\* the success flag for at least one source then the lists of events and
\* stations, the models and the summary are derived, whatever the position
\* of the sources that were skipped.
C26_MetadataAfterIngestion ==
    (/\ last.op = "__init__" /\ last.exc = ""
     /\ \E i \in DOMAIN last.ret : last.ret[i] # 0)
    => /\ self.events = Some(EventList(self.srcrcv))
       /\ self.stations = Some(StationList(self.srcrcv))
       /\ self.models # None
       /\ self.str # None

\* The call listed every event of the Index for exclusion, and every event
\* has its misfit and window records
AllEventsExcluded ==
    /\ last.op = "exclude_events"
    /\ EventKeys(last.pre.srcrcv) # {}
    /\ EventKeys(last.pre.srcrcv) = {last.ret[i] : i \in DOMAIN last.ret}
    /\ \A e \in EventKeys(last.pre.srcrcv) :
          Has(last.pre.misfits, e) /\ Has(last.pre.windows, e)

\* C27: when the criteria of exclude_events remove every event of the Index,
\* the call completes without error and leaves empty misfit and window
\* mappings, an empty list of events and no model in the metadata.
C27_ExcludingEveryEvent ==
    AllEventsExcluded
    => /\ last.exc = ""
       /\ self.misfits = <<>>
       /\ self.windows = <<>>
       /\ self.events = Some(<<>>)
       /\ self.models = Some(<<>>)
       /\ self.iterations = 0


----------------------------------------------------------------------------
(* Properties of Pyaflowa.process, checked under SpecProcess *)

\* The Manager methods called for a station, in the order of the calls
CallsOf(i) == SelectSeq(flow.calls, LAMBDA c : c.station = i)

\* The stations whose measure returned
CompletedMeasure ==
    {flow.calls[j].station :
        j \in {k \in DOMAIN flow.calls :
                  flow.calls[k].step = "measure" /\ flow.calls[k].returned}}

\* The number of rows of the STATIONS file
Rows == IF flow.stations = None THEN 0 ELSE flow.stations[1]

\* C28: in process, every station runs reset, gather, standardize,
\* preprocess, window, measure in that order; a method that fails ends the
\* steps of its station only and every later station is still run; and
\* finalize_process is called once after the last station if and only if
\* at least one station completed measure.
C28_ProcessSequence ==
    flow.op = "process"
    => /\ \A i \in 1..Rows :
             /\ CallsOf(i) # <<>>
             /\ Len(CallsOf(i)) <= Len(Workflow)
             /\ \A j \in DOMAIN CallsOf(i) :
                   /\ CallsOf(i)[j].step = Workflow[j]
                   /\ ~CallsOf(i)[j].returned => j = Len(CallsOf(i))
       /\ \A j, k \in DOMAIN flow.calls :
             j < k => flow.calls[j].station <= flow.calls[k].station
       /\ flow.finalized = (IF CompletedMeasure # {} THEN 1 ELSE 0)

----------------------------------------------------------------------------
(* Properties of match_npts, checked under SpecStreams *)

\* Every trace of the stream has n samples
AllNpts(st, n) == \A i \in DOMAIN st : st[i] = n

\* The streams given have traces, and the traces of a stream have the same
\* number of samples
Matchable ==
    /\ streams.st_a # <<>> /\ streams.st_b # <<>>
    /\ AllNpts(streams.st_a, streams.st_a[1])
    /\ AllNpts(streams.st_b, streams.st_b[1])

\* The stream given as reference by force
Reference == IF streams.force = <<"b">> THEN streams.st_b ELSE streams.st_a

\* C29: match_npts returns two streams, in the order they were given, whose
\* traces all have the number of samples of the reference stream, whether
\* the reference is the longer or the shorter of the two; the reference
\* stream is returned with its sample counts unchanged.
C29_MatchNptsEqualises ==
    (streams.pc = "done" /\ Matchable)
    => /\ streams.exc = ""
       /\ Len(streams.ret) = 2
       /\ Len(streams.ret[1]) = Len(streams.st_a)
       /\ Len(streams.ret[2]) = Len(streams.st_b)
       /\ streams.ret[IF streams.force = <<"b">> THEN 2 ELSE 1] = Reference
       /\ AllNpts(streams.ret[1], Reference[1])
       /\ AllNpts(streams.ret[2], Reference[1])


----------------------------------------------------------------------------
(* Properties of the Config, checked under SpecConfig *)

\* The parameters a round trip is to restore
RoundTrip ==
    {"model_number", "min_period", "max_period", "unit_output",
     "synthetic_unit", "observed_tag", "synthetic_tag", "start_pad", "end_pad",
     "zero_pad", "map_corners", "cfgpaths"}

\* C30: a Config written with write_to_asdf under its model number is read
\* back by read_from_asdf for that model without error, and the Config read
\* has the same periods, units, tags, pads, map corners and search paths.
C30_ConfigRoundTrip ==
    (asdf.pc = "read" /\ asdf.model = asdf.cfg[1].model_number)
    => /\ asdf.exc = ""
       /\ \A f \in RoundTrip : asdf.got[1][f] = asdf.cfg[1][f]

=============================================================================
